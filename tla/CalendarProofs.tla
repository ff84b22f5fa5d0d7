--------------------------- MODULE CalendarProofs ---------------------------
(***************************************************************************)
(* Proofs about Calendar and Show: the form of a record, its days, months, *)
(* total, top 10 and hours, the weeks and estimates that are shown and the *)
(* merge of two records, for any length of hours, days, weeks and months,  *)
(* any number of entries, and any traffic.                                 *)
(***************************************************************************)
EXTENDS Show, CounterLemmas

-----------------------------------------------------------------------------
(***************************************************************************)
(* Sums over finite sets.  The fold of the community modules takes one     *)
(* element after another, as CHOOSE has them.                              *)
(***************************************************************************)

Pick(s) == CHOOSE x \in s : TRUE

\* g gives what the fold of v by op comes to, for every subset of S.
IsFold(g, op, zero, v, S) ==
    \A s \in SUBSET S :
        g[s] = IF s = {} THEN zero ELSE op[<<v[Pick(s)], g[s \ {Pick(s)}]>>]

\* What is picked from a set is in it.
LEMMA Picked == ASSUME NEW s, s # {} PROVE Pick(s) \in s
  BY DEF Pick

\* The fold exists, and has its values where op has them.
LEMMA FoldExists ==
    ASSUME NEW S, IsFiniteSet(S), NEW V, NEW zero \in V, NEW op \in [V \X V -> V],
           NEW v, \A x \in S : v[x] \in V
    PROVE  \E g \in [SUBSET S -> V] : IsFold(g, op, zero, v, S)
<1> DEFINE pick == [s \in SUBSET S |-> Pick(s)]
           take == [p \in S \X V |-> op[<<v[p[1]], p[2]>>]]
<1>1. Picks(pick, S)
  BY Picked DEF Picks
<1>2. take \in [S \X V -> V]
  <2>1. ASSUME NEW p \in S \X V PROVE op[<<v[p[1]], p[2]>>] \in V
    <3>1. p[1] \in S /\ p[2] \in V
      OBVIOUS
    <3> QED BY <3>1
  <2> QED BY <2>1
<1> HIDE DEF take
<1>3. PICK g \in [SUBSET S -> V] : Takes(g, take, zero, pick, S)
  BY <1>1, <1>2, TakingExists
<1>4. ASSUME NEW s \in SUBSET S
      PROVE  g[s] = IF s = {} THEN zero ELSE op[<<v[Pick(s)], g[s \ {Pick(s)}]>>]
  <2>1. CASE s = {}
    BY <1>3, <2>1 DEF Takes
  <2>2. CASE s # {}
    <3>1. pick[s] = Pick(s) /\ Pick(s) \in S
      BY <2>2, Picked
    <3>2. g[s] = take[<<Pick(s), g[s \ {Pick(s)}]>>] /\ g[s \ {Pick(s)}] \in V
      BY <1>3, <2>2, <3>1 DEF Takes
    <3> QED BY <2>2, <3>1, <3>2 DEF take
  <2> QED BY <2>1, <2>2
<1> QED BY <1>4 DEF IsFold

\* Two folds over sets where the values are the same are the same.
LEMMA FoldUnique ==
    ASSUME NEW S, IsFiniteSet(S), NEW op, NEW zero, NEW v, NEW w, NEW g, NEW h, NEW T \in SUBSET S,
           IsFold(g, op, zero, v, S), IsFold(h, op, zero, w, T), \A x \in T : v[x] = w[x]
    PROVE  \A s \in SUBSET T : g[s] = h[s]
<1> DEFINE Bad == {s \in SUBSET T : g[s] # h[s]}
<1>1. IsFiniteSet(T) /\ Bad \in SUBSET (SUBSET T)
  BY FS_Subset
<1>2. ASSUME NEW s \in Bad, \A x \in s : s \ {x} \notin Bad PROVE FALSE
  <2>1. CASE s = {}
    BY <1>2, <2>1 DEF IsFold
  <2>2. CASE s # {}
    <3>1. Pick(s) \in s /\ Pick(s) \in T /\ s \ {Pick(s)} \in SUBSET T
      BY <2>2, Picked
    <3>2. g[s \ {Pick(s)}] = h[s \ {Pick(s)}] /\ v[Pick(s)] = w[Pick(s)]
      BY <1>2, <3>1
    <3>3. /\ g[s] = op[<<v[Pick(s)], g[s \ {Pick(s)}]>>]
          /\ h[s] = op[<<w[Pick(s)], h[s \ {Pick(s)}]>>]
      BY <2>2 DEF IsFold
    <3> QED BY <1>2, <3>2, <3>3
  <2> QED BY <2>1, <2>2
<1>3. Bad = {}
  <2> HIDE DEF Bad
  <2> QED BY <1>1, <1>2, SmallSets
<1> QED BY <1>3

\* The order in which op takes the elements does not matter.
AnyOrder(op, V) == \A a, b, c \in V : op[<<a, op[<<b, c>>]>>] = op[<<b, op[<<a, c>>]>>]

\* Such a fold of values in V.
FreeFold(g, V, op, zero, v, S) ==
    /\ op \in [V \X V -> V] /\ AnyOrder(op, V)
    /\ \A x \in S : v[x] \in V
    /\ g \in [SUBSET S -> V] /\ IsFold(g, op, zero, v, S)

\* Any element may be the first.
LEMMA FoldTakes ==
    ASSUME NEW S, IsFiniteSet(S), NEW V, NEW zero, NEW op, NEW v, NEW g,
           FreeFold(g, V, op, zero, v, S), NEW y \in S
    PROVE  g[S] = op[<<v[y], g[S \ {y}]>>]
<1> USE DEF FreeFold
<1> DEFINE Bad == {s \in SUBSET S : \E z \in s : g[s] # op[<<v[z], g[s \ {z}]>>]}
<1>1. Bad \in SUBSET (SUBSET S)
  OBVIOUS
<1>2. ASSUME NEW s \in Bad, \A x \in s : s \ {x} \notin Bad PROVE FALSE
  <2>1. PICK z \in s : g[s] # op[<<v[z], g[s \ {z}]>>]
    BY <1>2
  <2> DEFINE x == Pick(s)
  <2>2. x \in s /\ s \in SUBSET S
    BY <2>1, Picked
  <2> HIDE DEF x
  <2>3. g[s] = op[<<v[x], g[s \ {x}]>>]
    BY <2>1 DEF IsFold, x
  <2>4. x # z
    BY <2>1, <2>3
  <2>5. s \ {x} \in SUBSET S /\ s \ {z} \in SUBSET S /\ z \in s \ {x} /\ x \in s \ {z}
    BY <2>1, <2>2, <2>4
  <2>6. s \ {x} \notin Bad /\ s \ {z} \notin Bad
    BY <1>2, <2>1, <2>2
  <2>7. /\ g[s \ {x}] = op[<<v[z], g[(s \ {x}) \ {z}]>>]
        /\ g[s \ {z}] = op[<<v[x], g[(s \ {z}) \ {x}]>>]
    BY <2>5, <2>6
  <2>8. PICK r \in SUBSET S : r = (s \ {x}) \ {z} /\ r = (s \ {z}) \ {x}
    BY <2>2
  <2>9. v[x] \in V /\ v[z] \in V /\ g[r] \in V
    BY <2>1, <2>2, <2>8
  <2>10. g[s] = op[<<v[x], op[<<v[z], g[r]>>]>>]
    BY <2>3, <2>7, <2>8
  <2>11. op[<<v[z], g[s \ {z}]>>] = op[<<v[z], op[<<v[x], g[r]>>]>>]
    BY <2>7, <2>8
  <2>12. op[<<v[x], op[<<v[z], g[r]>>]>>] = op[<<v[z], op[<<v[x], g[r]>>]>>]
    BY <2>9 DEF AnyOrder
  <2> QED BY <2>1, <2>10, <2>11, <2>12
<1>3. Bad = {}
  <2> HIDE DEF Bad
  <2> QED BY <1>1, <1>2, SmallSets
<1>4. S \in SUBSET S /\ S \notin Bad
  BY <1>3
<1> QED BY <1>4

KiB == [Dir -> Nat]
PlusKiB == [p \in KiB \X KiB |-> Plus(p[1], p[2])]
Sum(v, S) == FoldFunctionOnSet(Plus, Zero, v, S)

LEMMA PlusType ==
    /\ Zero \in KiB
    /\ PlusKiB \in [KiB \X KiB -> KiB]
    /\ \A a, b \in KiB : Plus(a, b) \in KiB /\ PlusKiB[<<a, b>>] = Plus(a, b)
    /\ \A a, b, c \in KiB : Plus(a, Plus(b, c)) = Plus(b, Plus(a, c))
<1>1. \A a, b \in KiB : Plus(a, b) \in KiB
  BY DEF Plus, KiB
<1>2. Zero \in KiB
  BY DEF Zero, KiB
<1>3. \A p \in KiB \X KiB : p[1] \in KiB /\ p[2] \in KiB
  OBVIOUS
<1>4. PlusKiB \in [KiB \X KiB -> KiB]
  BY <1>1, <1>3 DEF PlusKiB
<1>5. \A a, b \in KiB : PlusKiB[<<a, b>>] = Plus(a, b)
  BY DEF PlusKiB
<1>6. ASSUME NEW a \in KiB, NEW b \in KiB, NEW c \in KiB PROVE Plus(a, Plus(b, c)) = Plus(b, Plus(a, c))
  <2>1. \A x \in Dir : a[x] \in Nat /\ b[x] \in Nat /\ c[x] \in Nat
    BY DEF KiB
  <2>2. /\ Plus(a, Plus(b, c)) = [x \in Dir |-> a[x] + (b[x] + c[x])]
        /\ Plus(b, Plus(a, c)) = [x \in Dir |-> b[x] + (a[x] + c[x])]
    BY DEF Plus
  <2> QED BY <2>1, <2>2
<1> QED BY <1>1, <1>2, <1>4, <1>5, <1>6

\* The fold of the community modules is such a fold.
LEMMA SumIsFold ==
    ASSUME NEW S, IsFiniteSet(S), NEW v, \A x \in S : v[x] \in KiB
    PROVE  \E g \in [SUBSET S -> KiB] : IsFold(g, PlusKiB, Zero, v, S) /\ Sum(v, S) = g[S]
<1>1. PICK g \in [SUBSET S -> KiB] : IsFold(g, PlusKiB, Zero, v, S)
  BY FoldExists, PlusType
<1> DEFINE Next1(f, s) == IF s = {} THEN Zero ELSE Plus(v[Pick(s)], f[s \ {Pick(s)}])
           iter == CHOOSE f : f = [s \in SUBSET S |-> Next1(f, s)]
<1>2. Sum(v, S) = iter[S]
  BY DEF Sum, FoldFunctionOnSet, MapThenFoldSet, Pick
<1>3. ASSUME NEW s \in SUBSET S, s # {} PROVE Pick(s) \in S /\ s \ {Pick(s)} \in SUBSET S
  BY <1>3, Picked
<1>4. g = [s \in SUBSET S |-> Next1(g, s)]
  <2>1. ASSUME NEW s \in SUBSET S PROVE g[s] = Next1(g, s)
    <3>1. CASE s = {}
      BY <1>1, <3>1 DEF IsFold
    <3>2. CASE s # {}
      <4>1. v[Pick(s)] \in KiB /\ g[s \ {Pick(s)}] \in KiB
        BY <1>1, <1>3, <3>2
      <4>2. g[s] = PlusKiB[<<v[Pick(s)], g[s \ {Pick(s)}]>>]
        BY <1>1, <3>2 DEF IsFold
      <4> QED BY <3>2, <4>1, <4>2, PlusType
    <3> QED BY <3>1, <3>2
  <2>2. DOMAIN g = SUBSET S /\ g = [s \in SUBSET S |-> g[s]]
    BY <1>1
  <2> QED BY <2>1, <2>2
<1>5. iter = [s \in SUBSET S |-> Next1(iter, s)]
  BY <1>4
<1> HIDE DEF iter
<1> DEFINE Bad == {s \in SUBSET S : iter[s] # g[s]}
<1>6. ASSUME NEW s \in Bad, \A x \in s : s \ {x} \notin Bad PROVE FALSE
  <2>1. CASE s = {}
    BY <1>1, <1>5, <1>6, <2>1 DEF IsFold
  <2>2. CASE s # {}
    <3>1. Pick(s) \in s /\ s \ {Pick(s)} \in SUBSET S
      BY <2>2, Picked
    <3>2. iter[s \ {Pick(s)}] = g[s \ {Pick(s)}]
      BY <1>6, <3>1
    <3>3. iter[s] = Next1(iter, s) /\ g[s] = Next1(g, s)
      BY <1>4, <1>5
    <3> QED BY <1>6, <2>2, <3>2, <3>3
  <2> QED BY <2>1, <2>2
<1>7. Bad = {}
  <2>1. Bad \in SUBSET (SUBSET S)
    OBVIOUS
  <2> HIDE DEF Bad
  <2> QED BY <1>6, <2>1, SmallSets
<1>8. S \notin Bad
  BY <1>7
<1> QED BY <1>1, <1>2, <1>8

Index == 0..(NDays - 1)
DaySums == [Dir -> [mb : Nat, kb : 0..(K - 1)]]
DayEntries == [date : Nat, sum : DaySums, used : BOOLEAN]

\* The array days is exact for the log lg, and its first entry is the open
\* one, of day last; the used entries come first.
DayOk(days, lg, last) ==
    /\ days \in [Index -> DayEntries]
    /\ lg \in [Days -> KiB]
    /\ last \in Days
    /\ days[0].used /\ DayOf(days[0].date) = last
    /\ \A d \in Days : d > last => lg[d] = Zero
    /\ \A i, j \in Index : i < j /\ days[j].used => days[i].used
    /\ \A i \in Index : days[i].used => InKiB(days[i].sum) = lg[DayOf(days[i].date)]
    /\ \A i, j \in Index : i < j /\ days[i].used /\ days[j].used
                              => DayOf(days[i].date) > DayOf(days[j].date)
    /\ \A d \in Days : lg[d] # Zero =>
          \/ \E i \in Index : days[i].used /\ DayOf(days[i].date) = d
          \/ days[NDays - 1].used /\ d < DayOf(days[NDays - 1].date)

\* Days are counted from 0, and do not run backwards.
LEMMA DayOfType ==
    ASSUME NEW t \in Nat
    PROVE  /\ DayOf(t) \in Nat
           /\ \A u \in Nat : t <= u => DayOf(t) <= DayOf(u)
<1>1. DayLength \in Nat \ {0}
  BY CalendarAssumption DEF DayLength
<1>2. DayOf(t) \in Nat
  BY <1>1, DivModNat DEF DayOf
<1>3. ASSUME NEW u \in Nat, t <= u PROVE DayOf(t) <= DayOf(u)
  BY <1>1, <1>3, DivMonotone DEF DayOf
<1> QED BY <1>2, <1>3

\* The minutes explored are of the days explored.
LEMMA DayInDays == ASSUME NEW t \in 0..MaxNow PROVE DayOf(t) \in Days
<1>1. MaxNow \in Nat /\ t \in Nat /\ t <= MaxNow
  BY CalendarAssumption
<1> QED BY <1>1, DayOfType DEF Days

\* addtraffic adds what it is given, and keeps the sum normalised.
LEMMA AddKiB ==
    ASSUME NEW s \in DaySums, NEW a \in KiB
    PROVE  /\ Add(s, a) \in DaySums
           /\ InKiB(Add(s, a)) = Plus(InKiB(s), a)
<1>1. ASSUME NEW x \in Dir
      PROVE  LET u == addtraffic(s[x], a[x] \div K, a[x] % K) IN
             /\ u \in [mb : Nat, kb : 0..(K - 1)]
             /\ InKB(u.mb, u.kb) = InKB(s[x].mb, s[x].kb) + a[x]
  <2> DEFINE q == a[x] \div K  r == a[x] % K  u == addtraffic(s[x], q, r)
  <2>1. s[x] \in [mb : Nat, kb : 0..(K - 1)] /\ a[x] \in Nat /\ K \in Nat \ {0}
    BY CountersAssumption DEF DaySums, KiB
  <2>2. q \in Nat /\ r \in 0..(K - 1) /\ a[x] = K * q + r
    BY <2>1, DivModNat
  <2> HIDE DEF q, r
  <2>3. u \in [mb : Nat, kb : 0..(K - 1)] /\ InKB(u.mb, u.kb) = InKB(s[x].mb, s[x].kb) + InKB(q, r)
    BY <2>1, <2>2, AddTraffic
  <2> HIDE DEF u
  <2>4. K * q = q * K
    BY <2>1, <2>2
  <2>5. InKB(q, r) = a[x]
    BY <2>1, <2>2, <2>4 DEF InKB
  <2> QED BY <2>3, <2>5 DEF u, q, r
<1> DEFINE added(x) == addtraffic(s[x], a[x] \div K, a[x] % K)
<1>2. Add(s, a) = [x \in Dir |-> added(x)]
  BY DEF Add
<1>3. \A x \in Dir : /\ added(x) \in [mb : Nat, kb : 0..(K - 1)]
                     /\ InKB(added(x).mb, added(x).kb) = InKB(s[x].mb, s[x].kb) + a[x]
  BY <1>1
<1> HIDE DEF added
<1> QED BY <1>2, <1>3 DEF DaySums, InKiB, Plus

\* What an empty sum and an empty amount are.
LEMMA Empty ==
    /\ Zero \in KiB /\ ZeroSum \in DaySums /\ InKiB(ZeroSum) = Zero
    /\ \A a \in KiB : Plus(Zero, a) = a /\ Plus(a, Zero) = a
<1>1. Zero \in KiB
  BY DEF Zero, KiB
<1>2. ZeroSum \in DaySums
  BY CountersAssumption DEF ZeroSum, DaySums
<1>3. InKiB(ZeroSum) = Zero
  BY CountersAssumption DEF ZeroSum, InKiB, Zero, InKB
<1>4. ASSUME NEW a \in KiB PROVE Plus(Zero, a) = a /\ Plus(a, Zero) = a
  BY DEF Plus, Zero, KiB
<1> QED BY <1>1, <1>2, <1>3, <1>4

\* Sums of KiB: any of the set may be counted first.
LEMMA SumFacts ==
    ASSUME NEW S, IsFiniteSet(S), NEW v, \A x \in S : v[x] \in KiB
    PROVE  /\ Sum(v, S) \in KiB
           /\ S = {} => Sum(v, S) = Zero
           /\ \A y \in S : Sum(v, S) = Plus(v[y], Sum(v, S \ {y}))
<1>1. PICK g \in [SUBSET S -> KiB] : IsFold(g, PlusKiB, Zero, v, S) /\ Sum(v, S) = g[S]
  BY SumIsFold
<1>2. S = {} => Sum(v, S) = Zero
  BY <1>1 DEF IsFold
<1>3. ASSUME NEW y \in S PROVE Sum(v, S) = Plus(v[y], Sum(v, S \ {y}))
  <2> DEFINE T == S \ {y}
  <2>1. T \in SUBSET S /\ IsFiniteSet(T) /\ \A x \in T : v[x] \in KiB
    BY FS_Subset
  <2> HIDE DEF T
  <2>2. PICK h \in [SUBSET T -> KiB] : IsFold(h, PlusKiB, Zero, v, T) /\ Sum(v, T) = h[T]
    BY <2>1, SumIsFold
  <2>3. g[T] = h[T]
    BY <1>1, <2>1, <2>2, FoldUnique
  <2>4. AnyOrder(PlusKiB, KiB)
    BY PlusType DEF AnyOrder
  <2>5. g[S] = PlusKiB[<<v[y], g[T]>>]
    <3>1. FreeFold(g, KiB, PlusKiB, Zero, v, S)
      BY <1>1, <2>4, PlusType DEF FreeFold
    <3> QED BY <3>1, FoldTakes DEF T
  <2>6. v[y] \in KiB /\ g[T] \in KiB
    BY <1>1, <2>1
  <2> QED BY <1>1, <2>2, <2>3, <2>5, <2>6, PlusType DEF T
<1> QED BY <1>1, <1>2, <1>3

\* A sum depends on what is added up alone.
LEMMA SumSame ==
    ASSUME NEW S, IsFiniteSet(S), NEW v, NEW w, \A x \in S : v[x] \in KiB /\ w[x] = v[x]
    PROVE  Sum(w, S) = Sum(v, S)
<1>1. PICK g \in [SUBSET S -> KiB] : IsFold(g, PlusKiB, Zero, v, S) /\ Sum(v, S) = g[S]
  BY SumIsFold
<1>2. PICK h \in [SUBSET S -> KiB] : IsFold(h, PlusKiB, Zero, w, S) /\ Sum(w, S) = h[S]
  BY SumIsFold
<1>3. g[S] = h[S]
  BY <1>1, <1>2, FoldUnique
<1> QED BY <1>1, <1>2, <1>3

\* What was added to one of the parts is added to the sum.
LEMMA SumGrows ==
    ASSUME NEW S, IsFiniteSet(S), NEW y \in S, NEW a \in KiB,
           NEW v, \A x \in S : v[x] \in KiB,
           NEW w, w[y] = Plus(v[y], a), \A x \in S \ {y} : w[x] = v[x]
    PROVE  Sum(w, S) = Plus(Sum(v, S), a)
<1> DEFINE T == S \ {y}
<1>1. IsFiniteSet(T) /\ \A x \in T : v[x] \in KiB /\ w[x] = v[x]
  BY FS_Subset
<1>2. w[y] \in KiB /\ \A x \in S : w[x] \in KiB
  BY PlusType
<1>3. Sum(v, T) \in KiB /\ Sum(w, T) = Sum(v, T)
  BY <1>1, SumFacts, SumSame
<1>4. Sum(v, S) = Plus(v[y], Sum(v, T)) /\ Sum(w, S) = Plus(w[y], Sum(w, T))
  BY <1>2, SumFacts
<1> HIDE DEF T
<1>5. ASSUME NEW b \in KiB, NEW c \in KiB PROVE Plus(Plus(b, a), c) = Plus(Plus(b, c), a)
  BY DEF Plus, KiB
<1> QED BY <1>3, <1>4, <1>5

\* Where nothing was counted the sum is nothing.
LEMMA SumNothing ==
    ASSUME NEW S, IsFiniteSet(S), NEW v, \A x \in S : v[x] = Zero PROVE Sum(v, S) = Zero
<1>1. PICK g \in [SUBSET S -> KiB] : IsFold(g, PlusKiB, Zero, v, S) /\ Sum(v, S) = g[S]
  BY SumIsFold, PlusType
<1>2. PlusKiB[<<Zero, Zero>>] = Zero
  BY PlusType, Empty
<1> DEFINE Bad == {s \in SUBSET S : g[s] # Zero}
<1>3. ASSUME NEW s \in Bad, \A x \in s : s \ {x} \notin Bad PROVE FALSE
  <2>1. CASE s = {}
    BY <1>1, <1>3, <2>1 DEF IsFold
  <2>2. CASE s # {}
    <3>1. Pick(s) \in s /\ s \ {Pick(s)} \in SUBSET S
      BY <2>2, Picked
    <3>2. g[s \ {Pick(s)}] = Zero /\ v[Pick(s)] = Zero
      BY <1>3, <3>1
    <3> QED BY <1>1, <1>2, <1>3, <2>2, <3>2 DEF IsFold
  <2> QED BY <2>1, <2>2
<1>4. Bad = {}
  <2>1. Bad \in SUBSET (SUBSET S)
    OBVIOUS
  <2> HIDE DEF Bad
  <2> QED BY <1>3, <2>1, SmallSets
<1>5. S \notin Bad
  BY <1>4
<1> QED BY <1>1, <1>5

\* When the entries of an array move on and the first becomes empty, the sum
\* loses the last.
LEMMA SumShifted ==
    ASSUME NEW N \in Nat \ {0}, NEW v, \A i \in 0..(N - 1) : v[i] \in KiB,
           NEW w, w[0] = Zero, \A i \in 1..(N - 1) : w[i] = v[i - 1]
    PROVE  Plus(Sum(w, 0..(N - 1)), v[N - 1]) = Sum(v, 0..(N - 1))
<1>1. \A k \in Int : IsFiniteSet(0..k)
  BY FS_Interval
<1>2. \A k \in 0..(N - 1) : w[k] \in KiB
  <2> SUFFICES ASSUME NEW k \in 0..(N - 1) PROVE w[k] \in KiB
    OBVIOUS
  <2>1. CASE k = 0
    BY <2>1, PlusType
  <2>2. CASE k # 0
    <3>1. k \in 1..(N - 1) /\ k - 1 \in 0..(N - 1)
      BY <2>2
    <3> QED BY <3>1
  <2> QED BY <2>1, <2>2
<1>3. ASSUME NEW k \in 0..(N - 1)
      PROVE  /\ Sum(v, 0..k) = Plus(v[k], Sum(v, 0..(k - 1)))
             /\ Sum(w, 0..k) = Plus(w[k], Sum(w, 0..(k - 1)))
  <2>1. (0..k) \ {k} = 0..(k - 1) /\ k \in 0..k /\ 0..k \subseteq 0..(N - 1)
    OBVIOUS
  <2>2. (\A x \in 0..k : v[x] \in KiB /\ w[x] \in KiB) /\ IsFiniteSet(0..k)
    BY <1>1, <1>2, <2>1
  <2> QED BY <2>1, <2>2, SumFacts
<1> DEFINE Bad == {k \in 0..(N - 1) : Sum(w, 0..k) # Sum(v, 0..(k - 1))}
<1>4. ASSUME NEW k \in Bad, \A j \in Bad : k <= j PROVE FALSE
  <2>1. CASE k = 0
    <3>1. 0..(k - 1) = {}
      BY <2>1
    <3>2. Sum(v, 0..(k - 1)) = Zero /\ Sum(w, 0..(k - 1)) = Zero
      BY <3>1, SumFacts, FS_EmptySet
    <3>3. Sum(w, 0..k) = Plus(Zero, Zero)
      BY <1>3, <2>1, <3>2
    <3> QED BY <1>4, <3>2, <3>3, Empty
  <2>2. CASE k # 0
    <3>1. k - 1 \in 0..(N - 1) /\ ~(k <= k - 1) /\ k \in 1..(N - 1)
      BY <2>2
    <3>2. k - 1 \notin Bad
      BY <1>4, <3>1
    <3>3. Sum(w, 0..(k - 1)) = Sum(v, 0..(k - 1 - 1))
      BY <3>1, <3>2
    <3>4. Sum(w, 0..k) = Plus(v[k - 1], Sum(v, 0..(k - 1 - 1)))
      BY <1>3, <3>1, <3>3
    <3>5. Sum(v, 0..(k - 1)) = Plus(v[k - 1], Sum(v, 0..(k - 1 - 1)))
      BY <1>3, <3>1
    <3> QED BY <1>4, <3>4, <3>5
  <2> QED BY <2>1, <2>2
<1>5. Bad = {}
  <2>1. Bad \in SUBSET Nat
    OBVIOUS
  <2> HIDE DEF Bad
  <2> QED BY <1>4, <2>1, Least
<1>6. N - 1 \in 0..(N - 1)
  OBVIOUS
<1>7. Sum(w, 0..(N - 1)) = Sum(v, 0..(N - 1 - 1))
  BY <1>5, <1>6
<1>8. Sum(v, 0..(N - 1)) = Plus(v[N - 1], Sum(w, 0..(N - 1)))
  BY <1>3, <1>6, <1>7
<1>9. Sum(w, 0..(N - 1)) \in KiB /\ v[N - 1] \in KiB
  BY <1>1, <1>2, <1>6, SumFacts
<1>10. \A a, b \in KiB : Plus(a, b) = Plus(b, a)
  BY DEF Plus, KiB
<1> QED BY <1>8, <1>9, <1>10

\* Adding to the open day.
LEMMA AddOk ==
    ASSUME NEW days, NEW lg, NEW last, DayOk(days, lg, last), NEW a \in KiB
    PROVE  DayOk([i \in Index |->
                    IF i = 0 THEN [date |-> days[0].date, sum |-> Add(days[0].sum, a), used |-> days[0].used]
                    ELSE days[i]],
                 [lg EXCEPT ![last] = Plus(@, a)], last)
<1> DEFINE new == [i \in Index |->
                    IF i = 0 THEN [date |-> days[0].date, sum |-> Add(days[0].sum, a), used |-> days[0].used]
                    ELSE days[i]]
           lg2 == [lg EXCEPT ![last] = Plus(@, a)]
<1>0. NDays \in Nat \ {0, 1} /\ 0 \in Index
  BY CalendarAssumption DEF Index
<1>1. /\ days \in [Index -> DayEntries] /\ lg \in [Days -> KiB] /\ last \in Days
      /\ days[0] \in DayEntries /\ days[0].sum \in DaySums
  BY <1>0 DEF DayOk, DayEntries
<1>2. Plus(lg[last], a) \in KiB
  BY <1>1 DEF Plus, KiB
<1>3. lg2 \in [Days -> KiB] /\ lg2[last] = Plus(lg[last], a) /\ \A d \in Days \ {last} : lg2[d] = lg[d]
  BY <1>1, <1>2
<1>4. Add(days[0].sum, a) \in DaySums /\ InKiB(Add(days[0].sum, a)) = Plus(InKiB(days[0].sum), a)
  BY <1>1, AddKiB
<1>5. /\ new \in [Index -> DayEntries]
      /\ new[0].sum = Add(days[0].sum, a)
      /\ \A i \in Index : new[i].date = days[i].date /\ new[i].used = days[i].used
      /\ \A i \in Index : i # 0 => new[i] = days[i]
  BY <1>0, <1>1, <1>4 DEF DayEntries
<1> HIDE DEF new, lg2
<1>6. ASSUME NEW i \in Index, new[i].used PROVE InKiB(new[i].sum) = lg2[DayOf(new[i].date)]
  <2>1. CASE i = 0
    BY <1>0, <1>3, <1>4, <1>5, <2>1 DEF DayOk
  <2>2. CASE i # 0
    <3>1. 0 < i /\ days[i].used /\ days[0].used /\ DayOf(days[0].date) = last
      BY <1>0, <1>5, <1>6, <2>2 DEF DayOk, Index
    <3>2. DayOf(days[i].date) < last
      BY <1>0, <3>1 DEF DayOk
    <3>3. days[i].date \in Nat /\ last \in 0..DayOf(MaxNow) /\ MaxNow \in Nat
      BY <1>1, CalendarAssumption DEF DayEntries, Days
    <3>4. DayOf(days[i].date) \in Days \ {last}
      BY <3>2, <3>3, DayOfType DEF Days
    <3> QED BY <1>3, <1>5, <1>6, <2>2, <3>4 DEF DayOk
  <2> QED BY <2>1, <2>2
<1>7. \A d \in Days : d > last => lg2[d] = Zero
  <2>1. \A d \in Days : d > last => d # last
    BY DEF Days
  <2> QED BY <1>3, <2>1 DEF DayOk
<1>8. ASSUME NEW d \in Days, lg2[d] # Zero
      PROVE  \/ \E i \in Index : new[i].used /\ DayOf(new[i].date) = d
             \/ new[NDays - 1].used /\ d < DayOf(new[NDays - 1].date)
  <2>1. CASE d = last
    BY <1>0, <1>5, <2>1 DEF DayOk
  <2>2. CASE d # last
    <3>1. NDays - 1 \in Index
      BY <1>0 DEF Index
    <3> QED BY <1>3, <1>5, <1>8, <2>2, <3>1 DEF DayOk
  <2> QED BY <2>1, <2>2
<1>9. DayOk(new, lg2, last)
  BY <1>0, <1>1, <1>3, <1>5, <1>6, <1>7, <1>8 DEF DayOk
<1> QED BY <1>9 DEF new, lg2

\* An empty open day gives its entry to a later one.
LEMMA RenameOk ==
    ASSUME NEW days, NEW lg, NEW last, DayOk(days, lg, last), days[0].sum = ZeroSum,
           NEW t \in 0..MaxNow, DayOf(t) > last
    PROVE  DayOk([days EXCEPT ![0].date = t], lg, DayOf(t))
<1> DEFINE new == [days EXCEPT ![0].date = t]
<1>0. NDays \in Nat \ {0, 1} /\ 0 \in Index /\ NDays - 1 \in Index /\ NDays - 1 # 0
  BY CalendarAssumption DEF Index
<1>1. /\ days \in [Index -> DayEntries] /\ lg \in [Days -> KiB] /\ last \in Days
      /\ DayOf(t) \in Days
  BY DayInDays DEF DayOk
<1>a. t \in Nat /\ DayOf(t) \in Nat /\ last \in Nat /\ \A d \in Days : d \in Nat
  BY <1>1, CalendarAssumption, DayOfType DEF Days
<1>2. /\ new \in [Index -> DayEntries]
      /\ new[0].sum = ZeroSum /\ new[0].date = t /\ new[0].used = days[0].used
      /\ \A i \in Index : i # 0 => new[i] = days[i]
  BY <1>0, <1>1 DEF DayEntries
<1> HIDE DEF new
<1>3. lg[last] = Zero
  BY <1>0, Empty DEF DayOk
<1>4. \A d \in Days : d > DayOf(t) => d > last
  BY <1>a
<1>5. lg[DayOf(t)] = Zero
  BY <1>1, <1>a DEF DayOk
<1>6. ASSUME NEW i \in Index, NEW j \in Index, i < j, new[j].used
      PROVE  new[i].used /\ DayOf(new[i].date) > DayOf(new[j].date)
  <2>1. i \in Nat /\ j \in Nat /\ j # 0 /\ new[j] = days[j] /\ days[j].used /\ days[i].used
        /\ DayOf(days[i].date) > DayOf(days[j].date)
    BY <1>2, <1>6 DEF DayOk, Index
  <2>2. CASE i = 0
    <3>1. days[j].date \in Nat /\ DayOf(days[j].date) \in Nat
      BY <1>1, DayOfType DEF DayEntries
    <3>2. DayOf(days[j].date) < last
      BY <2>1, <2>2 DEF DayOk
    <3>3. DayOf(t) > DayOf(days[j].date)
      BY <1>a, <3>1, <3>2
    <3> QED BY <1>2, <2>1, <2>2, <3>3
  <2>3. CASE i # 0
    BY <1>2, <2>1, <2>3
  <2> QED BY <2>2, <2>3
<1>7. ASSUME NEW i \in Index, new[i].used PROVE InKiB(new[i].sum) = lg[DayOf(new[i].date)]
  <2>1. CASE i = 0
    BY <1>2, <1>5, <2>1, Empty
  <2>2. CASE i # 0
    BY <1>2, <1>7, <2>2 DEF DayOk
  <2> QED BY <2>1, <2>2
<1>8. ASSUME NEW d \in Days, lg[d] # Zero
      PROVE  \/ \E i \in Index : new[i].used /\ DayOf(new[i].date) = d
             \/ new[NDays - 1].used /\ d < DayOf(new[NDays - 1].date)
  <2>1. CASE \E i \in Index : days[i].used /\ DayOf(days[i].date) = d
    <3>1. PICK i \in Index : days[i].used /\ DayOf(days[i].date) = d
      BY <2>1
    <3>2. i # 0
      BY <1>3, <1>8, <3>1 DEF DayOk
    <3> QED BY <1>2, <3>1, <3>2
  <2>2. CASE days[NDays - 1].used /\ d < DayOf(days[NDays - 1].date)
    BY <1>0, <1>2, <2>2
  <2> QED BY <1>8, <2>1, <2>2 DEF DayOk
<1>9. DayOk(new, lg, DayOf(t))
  BY <1>0, <1>1, <1>a, <1>2, <1>4, <1>6, <1>7, <1>8 DEF DayOk
<1> QED BY <1>9 DEF new

\* rotatedays: a new day opens, the others move on, the last is lost.
LEMMA ShiftOk ==
    ASSUME NEW days, NEW lg, NEW last, DayOk(days, lg, last),
           now \in 0..MaxNow, DayOf(now) > last
    PROVE  DayOk(Shifted(days), lg, DayOf(now))
<1> DEFINE new == Shifted(days)
<1>0. NDays \in Nat \ {0, 1} /\ 0 \in Index /\ NDays - 1 \in Index /\ NDays - 1 # 0
      /\ NDays - 2 \in Index
  BY CalendarAssumption DEF Index
<1>1. /\ days \in [Index -> DayEntries] /\ lg \in [Days -> KiB] /\ last \in Days
      /\ DayOf(now) \in Days /\ days[0] \in DayEntries
  BY <1>0, DayInDays DEF DayOk
<1>a. now \in Nat /\ DayOf(now) \in Nat /\ last \in Nat /\ \A d \in Days : d \in Nat
  BY <1>1, CalendarAssumption, DayOfType DEF Days
<1>2. /\ new = [i \in Index |-> IF i = 0 THEN [date |-> now, sum |-> ZeroSum, used |-> days[0].used]
                                         ELSE days[i - 1]]
      /\ \A i \in Index : i # 0 => i - 1 \in Index
  <2>1. [days[0] EXCEPT !.date = now, !.sum = ZeroSum]
          = [date |-> now, sum |-> ZeroSum, used |-> days[0].used]
    <3> DEFINE e == days[0]
               f == [e EXCEPT !.date = now, !.sum = ZeroSum]
    <3>1. e \in [date : Nat, sum : DaySums, used : BOOLEAN]
      BY <1>1 DEF DayEntries
    <3> HIDE DEF e
    <3>2. f \in [date : Nat \cup {now}, sum : DaySums \cup {ZeroSum}, used : BOOLEAN]
      BY <3>1
    <3>3. f.date = now /\ f.sum = ZeroSum /\ f.used = e.used
      BY <3>1
    <3> HIDE DEF f
    <3>4. f = [date |-> now, sum |-> ZeroSum, used |-> e.used]
      BY <3>2, <3>3
    <3> QED BY <3>4 DEF e, f
  <2>2. DOMAIN days = Index
    BY <1>1
  <2>3. \A i \in Index : i # 0 => i - 1 \in Index
    BY <1>0 DEF Index
  <2> QED BY <2>1, <2>2, <2>3 DEF Shifted
<1>3. /\ new \in [Index -> DayEntries]
      /\ new[0].sum = ZeroSum /\ new[0].date = now /\ new[0].used
      /\ \A i \in Index : i # 0 => new[i] = days[i - 1]
  BY <1>0, <1>1, <1>a, <1>2, Empty DEF DayEntries, DayOk
<1> HIDE DEF new
<1>4. \A d \in Days : d > DayOf(now) => d > last
  BY <1>a
<1>5. lg[DayOf(now)] = Zero
  BY <1>1, <1>a DEF DayOk
<1>6. ASSUME NEW i \in Index, days[i].used PROVE DayOf(days[i].date) \in Nat /\ DayOf(days[i].date) <= last
  <2>1. days[i].date \in Nat
    BY <1>1 DEF DayEntries
  <2>2. i = 0 \/ 0 < i
    BY DEF Index
  <2> QED BY <1>0, <1>a, <1>6, <2>1, <2>2, DayOfType DEF DayOk
<1>7. ASSUME NEW i \in Index, NEW j \in Index, i < j, new[j].used
      PROVE  new[i].used /\ DayOf(new[i].date) > DayOf(new[j].date)
  <2>1. i \in Nat /\ j \in Nat /\ j # 0 /\ j - 1 \in Index /\ new[j] = days[j - 1] /\ days[j - 1].used
    BY <1>2, <1>3, <1>7 DEF Index
  <2>2. CASE i = 0
    <3>1. DayOf(now) > DayOf(days[j - 1].date)
      BY <1>a, <1>6, <2>1
    <3> QED BY <1>3, <2>1, <2>2, <3>1
  <2>3. CASE i # 0
    <3>1. i - 1 \in Index /\ new[i] = days[i - 1] /\ i - 1 < j - 1
      BY <1>2, <1>3, <1>7, <2>1, <2>3
    <3> QED BY <2>1, <3>1 DEF DayOk
  <2> QED BY <2>2, <2>3
<1>8. ASSUME NEW i \in Index, new[i].used PROVE InKiB(new[i].sum) = lg[DayOf(new[i].date)]
  <2>1. CASE i = 0
    BY <1>3, <1>5, <2>1, Empty
  <2>2. CASE i # 0
    BY <1>2, <1>3, <1>8, <2>2 DEF DayOk
  <2> QED BY <2>1, <2>2
<1>9. ASSUME NEW d \in Days, lg[d] # Zero
      PROVE  \/ \E i \in Index : new[i].used /\ DayOf(new[i].date) = d
             \/ new[NDays - 1].used /\ d < DayOf(new[NDays - 1].date)
  <2>0. NDays - 1 - 1 = NDays - 2 /\ new[NDays - 1] = days[NDays - 2]
    BY <1>0, <1>3
  <2>1. CASE \E i \in Index : days[i].used /\ DayOf(days[i].date) = d
    <3>1. PICK i \in Index : days[i].used /\ DayOf(days[i].date) = d
      BY <2>1
    <3>2. CASE i = NDays - 1
      <4>1. NDays - 2 < i
        BY <1>0, <3>2
      <4>2. days[NDays - 2].used /\ DayOf(days[NDays - 2].date) > d
        BY <1>0, <3>1, <4>1 DEF DayOk
      <4>3. DayOf(days[NDays - 2].date) \in Nat
        BY <1>0, <1>6, <4>2
      <4> QED BY <2>0, <4>2, <4>3
    <3>3. CASE i # NDays - 1
      <4>1. i + 1 \in Index /\ i + 1 # 0 /\ (i + 1) - 1 = i
        BY <1>0, <3>3 DEF Index
      <4>2. new[i + 1] = days[i]
        BY <1>3, <4>1
      <4> QED BY <3>1, <4>1, <4>2
    <3> QED BY <3>2, <3>3
  <2>2. CASE days[NDays - 1].used /\ d < DayOf(days[NDays - 1].date)
    <3>1. NDays - 2 < NDays - 1
      BY <1>0
    <3>2. days[NDays - 2].used /\ DayOf(days[NDays - 2].date) > DayOf(days[NDays - 1].date)
      BY <1>0, <2>2, <3>1 DEF DayOk
    <3>3. DayOf(days[NDays - 2].date) \in Nat /\ DayOf(days[NDays - 1].date) \in Nat /\ d \in Nat
      BY <1>0, <1>a, <1>6, <2>2, <3>2
    <3>4. d < DayOf(days[NDays - 2].date)
      BY <2>2, <3>2, <3>3
    <3> QED BY <2>0, <3>2, <3>4
  <2> QED BY <1>9, <2>1, <2>2 DEF DayOk
<1>10. DayOk(new, lg, DayOf(now))
  BY <1>0, <1>1, <1>3, <1>4, <1>7, <1>8, <1>9 DEF DayOk
<1> QED BY <1>10 DEF new

-----------------------------------------------------------------------------
(***************************************************************************)
(* The steps of a pass, as far as the days go.                             *)
(***************************************************************************)

\* A record with days.
HasDays(d) == "day" \in DOMAIN d

\* Hours and months are other arrays.
LEMMA OtherArrays ==
    ASSUME NEW d, HasDays(d), NEW a
    PROVE  /\ HasDays(UpdateHours(d, a)) /\ UpdateHours(d, a).day = d.day
           /\ HasDays(UpdateMonths(d)) /\ UpdateMonths(d).day = d.day
           /\ HasDays(Written(d)) /\ Written(d).day = d.day
<1>1. HasDays(cleanhours(d)) /\ cleanhours(d).day = d.day
  BY DEF cleanhours, HasDays
<1>2. HasDays(UpdateHours(d, a)) /\ UpdateHours(d, a).day = d.day
  BY <1>1 DEF UpdateHours, HasDays
<1>3. HasDays(UpdateMonths(d)) /\ UpdateMonths(d).day = d.day
  BY DEF UpdateMonths, rotatemonths, HasDays
<1>4. HasDays(Written(d)) /\ Written(d).day = d.day
  BY DEF Written, HasDays
<1> QED BY <1>2, <1>3, <1>4

\* The open day gets the traffic.
LEMMA CurrentDay ==
    ASSUME NEW d, HasDays(d), d.day \in [Index -> DayEntries], NEW a
    PROVE  /\ HasDays(AddCurrent(d, a))
           /\ AddCurrent(d, a).day =
                [i \in Index |->
                    IF i = 0 THEN [date |-> d.day[0].date, sum |-> Add(d.day[0].sum, a), used |-> d.day[0].used]
                    ELSE d.day[i]]
<1>1. 0 \in Index /\ d.day[0] \in DayEntries
  BY CalendarAssumption DEF Index
<1>2. HasDays(AddCurrent(d, a)) /\ AddCurrent(d, a).day = [d.day EXCEPT ![0].sum = Add(@, a)]
  BY DEF AddCurrent, HasDays
<1>3. [d.day[0] EXCEPT !.sum = Add(@, a)]
        = [date |-> d.day[0].date, sum |-> Add(d.day[0].sum, a), used |-> d.day[0].used]
  BY <1>1 DEF DayEntries
<1> QED BY <1>1, <1>2, <1>3

\* The traffic of a pass, before the day is changed.
LEMMA CurrentOk ==
    ASSUME NEW d, HasDays(d), NEW lg, NEW last, DayOk(d.day, lg, last), NEW a \in KiB
    PROVE  /\ HasDays(UpdateHours(AddCurrent(d, a), a))
           /\ DayOk(UpdateHours(AddCurrent(d, a), a).day, [lg EXCEPT ![last] = Plus(@, a)], last)
<1> DEFINE e == UpdateHours(AddCurrent(d, a), a)
           new == [i \in Index |->
                     IF i = 0 THEN [date |-> d.day[0].date, sum |-> Add(d.day[0].sum, a),
                                    used |-> d.day[0].used]
                     ELSE d.day[i]]
<1>1. d.day \in [Index -> DayEntries]
  BY DEF DayOk
<1>2. HasDays(e) /\ e.day = new
  BY <1>1, CurrentDay, OtherArrays
<1>3. DayOk(new, [lg EXCEPT ![last] = Plus(@, a)], last)
  BY AddOk
<1> HIDE DEF e, new
<1>4. DayOk(e.day, [lg EXCEPT ![last] = Plus(@, a)], last)
  BY <1>2, <1>3
<1> QED BY <1>2, <1>4 DEF e

\* The whole pass keeps the days exact.
LEMMA PassOk ==
    ASSUME NEW d, HasDays(d), NEW lg, NEW last, DayOk(d.day, lg, last), NEW a \in KiB,
           now \in 0..MaxNow, last <= DayOf(now)
    PROVE  /\ HasDays(parseifinfo(d, a))
           /\ DayOk(parseifinfo(d, a).day, [lg EXCEPT ![last] = Plus(@, a)], DayOf(now))
<1> DEFINE e == UpdateHours(AddCurrent(d, a), a)
           lg2 == [lg EXCEPT ![last] = Plus(@, a)]
<1>2. HasDays(e)
  BY CurrentOk
<1>3. DayOk(e.day, lg2, last)
  BY CurrentOk
<1>4. parseifinfo(d, a) = UpdateMonths(UpdateDays(e))
  BY DEF parseifinfo
<1> HIDE DEF e, lg2
<1>5. HasDays(UpdateDays(e)) /\ DayOk(UpdateDays(e).day, lg2, DayOf(now))
  <2>0. last \in Nat /\ DayOf(now) \in Nat /\ DayOf(e.day[0].date) = last
    BY <1>3, CalendarAssumption, DayOfType DEF DayOk, Days
  <2>1. CASE DayOf(e.day[0].date) = DayOf(now)
    BY <1>2, <1>3, <2>0, <2>1 DEF UpdateDays
  <2>2. CASE DayOf(e.day[0].date) # DayOf(now)
    <3>0. DayOf(now) > last
      BY <2>0, <2>2
    <3>1. CASE e.day[0].sum = ZeroSum /\ ~TraflessDay
      <4>1. UpdateDays(e) = [e EXCEPT !.day[0].date = now]
        BY <2>2, <3>1 DEF UpdateDays
      <4>2. HasDays(UpdateDays(e)) /\ UpdateDays(e).day = [e.day EXCEPT ![0].date = now]
        BY <1>2, <4>1 DEF HasDays
      <4> QED BY <1>3, <3>0, <3>1, <4>2, RenameOk
    <3>2. CASE ~(e.day[0].sum = ZeroSum /\ ~TraflessDay)
      <4>1. UpdateDays(e) = rotatedays(e)
        BY <2>2, <3>2 DEF UpdateDays
      <4>2. HasDays(UpdateDays(e)) /\ UpdateDays(e).day = Shifted(e.day)
        BY <1>2, <4>1 DEF HasDays, rotatedays
      <4> QED BY <1>3, <3>0, <4>2, ShiftOk
    <3> QED BY <3>1, <3>2
  <2> QED BY <2>1, <2>2
<1> QED BY <1>4, <1>5, OtherArrays DEF lg2

-----------------------------------------------------------------------------
(***************************************************************************)
(* The invariant.                                                          *)
(***************************************************************************)

\* The open day is that of the last pass.
DayInv ==
    /\ now \in 0..MaxNow /\ lastpass \in 0..MaxNow /\ lastpass <= now
    /\ HasDays(data)
    /\ DayOk(data.day, log, DayOf(lastpass))

\* A new database has the day of its creation, and no traffic.
LEMMA FirstDayOk ==
    ASSUME now \in 0..MaxNow, log = [d \in Days |-> Zero]
    PROVE  HasDays(initdb) /\ DayOk(initdb.day, log, DayOf(now))
<1>1. now \in 0..MaxNow /\ DayOf(now) \in Days /\ now \in Nat /\ log = [d \in Days |-> Zero]
  BY CalendarAssumption, DayInDays
<1> DEFINE first == [date |-> now, sum |-> ZeroSum, used |-> TRUE]
           days == [i \in Index |-> IF i = 0 THEN first ELSE Unused]
<1>2. HasDays(initdb) /\ initdb.day = [i \in Index |-> IF i = 0 THEN [Unused EXCEPT !.date = now, !.used = TRUE] ELSE Unused]
  BY DEF initdb, HasDays, Index
<1>3. [Unused EXCEPT !.date = now, !.used = TRUE] = first
  <2> DEFINE f == [Unused EXCEPT !.date = now, !.used = TRUE]
  <2>1. Unused \in [date : {0}, sum : {ZeroSum}, used : {FALSE}] /\ Unused.sum = ZeroSum
    BY DEF Unused
  <2>2. f \in [date : {0} \cup {now}, sum : {ZeroSum}, used : {FALSE} \cup {TRUE}]
    BY <2>1
  <2>3. f.date = now /\ f.sum = ZeroSum /\ f.used = TRUE
    BY <2>1
  <2> HIDE DEF f
  <2>4. f = first
    BY <2>2, <2>3
  <2> QED BY <2>4 DEF f
<1>4. HasDays(initdb) /\ initdb.day = days
  BY <1>2, <1>3
<1>5. first \in DayEntries /\ Unused \in DayEntries /\ Unused.used = FALSE
  BY <1>1, Empty DEF DayEntries, Unused
<1>6. 0 \in Index /\ NDays - 1 \in Index
  BY CalendarAssumption DEF Index
<1>7. days \in [Index -> DayEntries] /\ days[0] = first /\ \A i \in Index : i # 0 => days[i] = Unused
  BY <1>5, <1>6
<1> HIDE DEF days
<1>8. log \in [Days -> KiB] /\ \A d \in Days : log[d] = Zero
  BY <1>1, Empty
<1>9. DayOk(days, log, DayOf(now))
  BY <1>1, <1>5, <1>6, <1>7, <1>8, Empty DEF DayOk, Index
<1> QED BY <1>4, <1>9 DEF days

LEMMA DayInit == Init => DayInv
<1> SUFFICES ASSUME Init PROVE DayInv
  OBVIOUS
<1>1. now \in 0..MaxNow /\ lastpass = now /\ DayOf(now) \in Days /\ now \in Nat
      /\ log = [d \in Days |-> Zero] /\ data = parseifinfo(initdb, Zero)
  BY CalendarAssumption, DayInDays DEF Init
<1>2. DayOf(now) \in Nat /\ DayOf(now) <= DayOf(now)
  BY <1>1, DayOfType
<1>3. DayOk(data.day, [log EXCEPT ![DayOf(now)] = Plus(@, Zero)], DayOf(now)) /\ HasDays(data)
  BY <1>1, <1>2, FirstDayOk, PassOk, Empty
<1>4. [log EXCEPT ![DayOf(now)] = Plus(@, Zero)] = log
  BY <1>1, Empty
<1>5. lastpass <= now
  BY <1>1
<1> QED BY <1>1, <1>3, <1>4, <1>5 DEF DayInv

\* Passes keep the days exact; nothing else touches them.
LEMMA DayNext == DayInv /\ [Next]_vars => DayInv'
<1> SUFFICES ASSUME DayInv, [Next]_vars PROVE DayInv'
  OBVIOUS
<1>1. CASE Tick
  <2>1. now' \in 0..MaxNow /\ now' > now /\ UNCHANGED <<data, lastpass, log>>
    BY <1>1, CalendarAssumption DEF Tick
  <2>2. lastpass <= now'
    BY <2>1, CalendarAssumption DEF DayInv
  <2> QED BY <2>1, <2>2 DEF DayInv
<1>2. CASE Pass
  <2>1. PICK a \in Amounts \cup {Zero} :
           /\ now > lastpass /\ data' = Written(parseifinfo(data, a)) /\ lastpass' = now
           /\ log' = [log EXCEPT ![DayOf(lastpass)] = Plus(@, a)] /\ UNCHANGED now
    BY <1>2 DEF Pass
  <2>2. a \in KiB
    BY CalendarAssumption, Empty DEF KiB
  <2>3. lastpass \in Nat /\ now \in Nat /\ lastpass <= now
    BY CalendarAssumption DEF DayInv
  <2>4. DayOf(lastpass) <= DayOf(now)
    BY <2>3, DayOfType
  <2>5. HasDays(parseifinfo(data, a)) /\ DayOk(parseifinfo(data, a).day, log', DayOf(now))
    BY <2>1, <2>2, <2>4, PassOk DEF DayInv
  <2>6. HasDays(data') /\ data'.day = parseifinfo(data, a).day
    BY <2>1, <2>5, OtherArrays
  <2> QED BY <2>1, <2>3, <2>5, <2>6 DEF DayInv
<1>3. CASE Touch
  <2>1. data' = Written(data) /\ UNCHANGED <<now, lastpass, log>>
    BY <1>3 DEF Touch
  <2>2. HasDays(data') /\ data'.day = data.day
    BY <2>1, OtherArrays DEF DayInv
  <2> QED BY <2>1, <2>2 DEF DayInv
<1>4. CASE ClearTop
  <2> DEFINE d == [data EXCEPT !.top10 = [i \in DOMAIN @ |->
                                            [@[i] EXCEPT !.sum = ZeroSum, !.used = FALSE]]]
  <2>1. data' = Written(d) /\ UNCHANGED <<now, lastpass, log>>
    BY <1>4 DEF ClearTop
  <2>2. HasDays(d) /\ d.day = data.day
    BY DEF DayInv, HasDays
  <2> HIDE DEF d
  <2>3. HasDays(data') /\ data'.day = data.day
    BY <2>1, <2>2, OtherArrays
  <2> QED BY <2>1, <2>3 DEF DayInv
<1>5. CASE Retire \/ UNCHANGED vars
  BY <1>5 DEF Retire, vars, DayInv
<1> QED BY <1>1, <1>2, <1>3, <1>4, <1>5 DEF Next

\* The days of a record are exact, for any calendar, any number of entries and
\* any traffic: each entry has the traffic of its day, no day has two, and none
\* with traffic is missing until newer ones have pushed it out.
THEOREM DaysExactAlways == Spec => []DaysExact
<1>1. DayInv => DaysExact
  <2> SUFFICES ASSUME DayInv PROVE DaysExact
    OBVIOUS
  <2> DEFINE used == {i \in DOMAIN data.day : data.day[i].used}
  <2>1. DayOk(data.day, log, DayOf(lastpass)) /\ DOMAIN data.day = Index
    BY DEF DayInv, DayOk
  <2>2. used = {i \in Index : data.day[i].used} /\ NDays - 1 \in Index
    BY <2>1, CalendarAssumption DEF Index
  <2> HIDE DEF used
  <2>3. \A i \in used : InKiB(data.day[i].sum) = log[DayOf(data.day[i].date)]
    BY <2>1, <2>2 DEF DayOk
  <2>4. \A i, j \in used : i < j => DayOf(data.day[i].date) > DayOf(data.day[j].date)
    BY <2>1, <2>2 DEF DayOk
  <2>5. ASSUME NEW d \in Days, log[d] # Zero
        PROVE  \/ \E i \in used : DayOf(data.day[i].date) = d
               \/ used = DOMAIN data.day /\ d < DayOf(data.day[NDays - 1].date)
    <3>1. CASE \E i \in Index : data.day[i].used /\ DayOf(data.day[i].date) = d
      BY <2>2, <3>1
    <3>2. CASE data.day[NDays - 1].used /\ d < DayOf(data.day[NDays - 1].date)
      <4>1. ASSUME NEW i \in Index PROVE data.day[i].used
        <5>1. i = NDays - 1 \/ i < NDays - 1
          BY CalendarAssumption DEF Index
        <5> QED BY <2>1, <2>2, <3>2, <5>1 DEF DayOk
      <4> QED BY <2>1, <2>2, <3>2, <4>1
    <3> QED BY <2>1, <2>5, <3>1, <3>2 DEF DayOk
  <2> QED BY <2>3, <2>4, <2>5 DEF DaysExact, used
<1> QED BY DayInit, DayNext, <1>1, PTL DEF Spec

-----------------------------------------------------------------------------
(***************************************************************************)
(* The calendar: months follow each other without gaps, and so do the      *)
(* months that begin on MonthRotate.                                       *)
(***************************************************************************)

PlusNat == [p \in Nat \X Nat |-> p[1] + p[2]]
NatSum(v, S) == SumFunctionOnSet(v, S)

LEMMA PlusNatType ==
    /\ PlusNat \in [Nat \X Nat -> Nat]
    /\ \A a, b \in Nat : PlusNat[<<a, b>>] = a + b
    /\ AnyOrder(PlusNat, Nat)
<1>1. \A p \in Nat \X Nat : p[1] + p[2] \in Nat
  OBVIOUS
<1>2. PlusNat \in [Nat \X Nat -> Nat]
  BY <1>1 DEF PlusNat
<1>3. \A a, b \in Nat : PlusNat[<<a, b>>] = a + b
  BY DEF PlusNat
<1> HIDE DEF PlusNat
<1>4. ASSUME NEW a \in Nat, NEW b \in Nat, NEW c \in Nat
      PROVE  PlusNat[<<a, PlusNat[<<b, c>>]>>] = PlusNat[<<b, PlusNat[<<a, c>>]>>]
  <2>1. b + c \in Nat /\ a + c \in Nat
    OBVIOUS
  <2>2. PlusNat[<<b, c>>] = b + c /\ PlusNat[<<a, c>>] = a + c
    BY <1>3
  <2>3. PlusNat[<<a, b + c>>] = a + (b + c) /\ PlusNat[<<b, a + c>>] = b + (a + c)
    BY <1>3, <2>1
  <2> QED BY <2>2, <2>3
<1>5. AnyOrder(PlusNat, Nat)
  BY <1>4 DEF AnyOrder
<1> QED BY <1>2, <1>3, <1>5

\* The same of sums of naturals as of sums of KiB.
LEMMA NatSumIsFold ==
    ASSUME NEW S, IsFiniteSet(S), NEW v, \A x \in S : v[x] \in Nat
    PROVE  \E g \in [SUBSET S -> Nat] : IsFold(g, PlusNat, 0, v, S) /\ NatSum(v, S) = g[S]
<1>1. PICK g \in [SUBSET S -> Nat] : IsFold(g, PlusNat, 0, v, S)
  BY FoldExists, PlusNatType
<1> DEFINE Next1(f, s) == IF s = {} THEN 0 ELSE v[Pick(s)] + f[s \ {Pick(s)}]
           iter == CHOOSE f : f = [s \in SUBSET S |-> Next1(f, s)]
<1>2. NatSum(v, S) = iter[S]
  BY DEF NatSum, SumFunctionOnSet, FoldFunctionOnSet, MapThenFoldSet, Pick
<1>3. ASSUME NEW s \in SUBSET S, s # {} PROVE Pick(s) \in S /\ s \ {Pick(s)} \in SUBSET S
  BY <1>3, Picked
<1>4. g = [s \in SUBSET S |-> Next1(g, s)]
  <2>1. ASSUME NEW s \in SUBSET S PROVE g[s] = Next1(g, s)
    <3>1. CASE s = {}
      BY <1>1, <3>1 DEF IsFold
    <3>2. CASE s # {}
      <4>1. v[Pick(s)] \in Nat /\ g[s \ {Pick(s)}] \in Nat
        BY <1>1, <1>3, <3>2
      <4>2. g[s] = PlusNat[<<v[Pick(s)], g[s \ {Pick(s)}]>>]
        BY <1>1, <3>2 DEF IsFold
      <4> QED BY <3>2, <4>1, <4>2, PlusNatType
    <3> QED BY <3>1, <3>2
  <2>2. DOMAIN g = SUBSET S /\ g = [s \in SUBSET S |-> g[s]]
    BY <1>1
  <2> QED BY <2>1, <2>2
<1>5. iter = [s \in SUBSET S |-> Next1(iter, s)]
  BY <1>4
<1> HIDE DEF iter
<1> DEFINE Bad == {s \in SUBSET S : iter[s] # g[s]}
<1>6. ASSUME NEW s \in Bad, \A x \in s : s \ {x} \notin Bad PROVE FALSE
  <2>1. CASE s = {}
    BY <1>1, <1>5, <1>6, <2>1 DEF IsFold
  <2>2. CASE s # {}
    <3>1. Pick(s) \in s /\ s \ {Pick(s)} \in SUBSET S
      BY <2>2, Picked
    <3>2. iter[s \ {Pick(s)}] = g[s \ {Pick(s)}]
      BY <1>6, <3>1
    <3>3. iter[s] = Next1(iter, s) /\ g[s] = Next1(g, s)
      BY <1>4, <1>5
    <3> QED BY <1>6, <2>2, <3>2, <3>3
  <2> QED BY <2>1, <2>2
<1>7. Bad = {}
  <2>1. Bad \in SUBSET (SUBSET S)
    OBVIOUS
  <2> HIDE DEF Bad
  <2> QED BY <1>6, <2>1, SmallSets
<1>8. S \notin Bad
  BY <1>7
<1> QED BY <1>1, <1>2, <1>8

\* The first days of the months.
Last == Len(MonthLength)

LEMMA FirstDays ==
    /\ Last \in Nat /\ \A n \in 1..Last : MonthLength[n] \in Nat /\ MonthRotate \in 1..MonthLength[n]
    /\ \A n \in 0..Last : FirstDay[n] \in Nat
    /\ FirstDay[0] = 0
    /\ \A n \in 1..Last : FirstDay[n] = FirstDay[n - 1] + MonthLength[n]
<1>1. Last \in Nat /\ \A n \in 1..Last : MonthLength[n] \in Nat /\ MonthRotate \in 1..MonthLength[n]
  BY MonthsAssumption DEF Last
<1>2. \A n \in 0..Last : FirstDay[n] = NatSum(MonthLength, 1..n)
  BY DEF FirstDay, NatSum, Last
<1>3. ASSUME NEW n \in 0..Last
      PROVE  /\ IsFiniteSet(1..n) /\ (\A x \in 1..n : MonthLength[x] \in Nat)
             /\ FirstDay[n] \in Nat /\ (n = 0 => FirstDay[n] = 0)
  <2>1. IsFiniteSet(1..n) /\ \A x \in 1..n : MonthLength[x] \in Nat
    BY <1>1, FS_Interval
  <2> DEFINE S == 1..n
  <2>2. n = 0 => S = {}
    OBVIOUS
  <2> HIDE DEF S
  <2>3. PICK g \in [SUBSET S -> Nat] : IsFold(g, PlusNat, 0, MonthLength, S) /\ NatSum(MonthLength, S) = g[S]
    BY <2>1, NatSumIsFold DEF S
  <2>4. g[S] \in Nat /\ (n = 0 => g[S] = 0)
    BY <2>2, <2>3 DEF IsFold
  <2> QED BY <1>2, <2>1, <2>3, <2>4 DEF S
<1>4. ASSUME NEW n \in 1..Last PROVE FirstDay[n] = FirstDay[n - 1] + MonthLength[n]
  <2> DEFINE S == 1..n  T == 1..(n - 1)
  <2>1. n \in 0..Last /\ n - 1 \in 0..Last /\ T = S \ {n} /\ n \in S /\ T \in SUBSET S
    BY <1>1
  <2>2. IsFiniteSet(S) /\ IsFiniteSet(T) /\ (\A x \in S : MonthLength[x] \in Nat)
    BY <1>3, <2>1
  <2>3. FirstDay[n] = NatSum(MonthLength, S) /\ FirstDay[n - 1] = NatSum(MonthLength, T)
    BY <1>2, <2>1
  <2> HIDE DEF S, T
  <2>4. PICK g \in [SUBSET S -> Nat] : IsFold(g, PlusNat, 0, MonthLength, S) /\ NatSum(MonthLength, S) = g[S]
    BY <2>2, NatSumIsFold
  <2>5. PICK h \in [SUBSET T -> Nat] : IsFold(h, PlusNat, 0, MonthLength, T) /\ NatSum(MonthLength, T) = h[T]
    BY <2>1, <2>2, NatSumIsFold
  <2>6. g[T] = h[T]
    BY <2>1, <2>2, <2>4, <2>5, FoldUnique
  <2>7. FreeFold(g, Nat, PlusNat, 0, MonthLength, S)
    BY <2>2, <2>4, PlusNatType DEF FreeFold
  <2>8. g[S] = PlusNat[<<MonthLength[n], g[T]>>]
    BY <2>1, <2>2, <2>7, FoldTakes
  <2>9. MonthLength[n] \in Nat /\ g[T] \in Nat
    BY <2>1, <2>2, <2>4
  <2>10. g[S] = MonthLength[n] + g[T]
    BY <2>8, <2>9, PlusNatType
  <2> QED BY <2>3, <2>4, <2>5, <2>6, <2>9, <2>10
<1> QED BY <1>1, <1>3, <1>4

\* Months begin one after the other.
LEMMA Increasing ==
    ASSUME NEW m \in 0..Last, NEW n \in 0..Last, m < n PROVE FirstDay[m] < FirstDay[n]
<1> DEFINE Bad == {k \in 0..Last : m < k /\ ~(FirstDay[m] < FirstDay[k])}
<1>1. Bad \in SUBSET Nat
  OBVIOUS
<1>2. ASSUME NEW k \in Bad, \A j \in Bad : k <= j PROVE FALSE
  <2>1. k \in 1..Last /\ k - 1 \in 0..Last /\ m <= k - 1 /\ ~(k <= k - 1)
    BY FirstDays
  <2>2. k - 1 = m \/ FirstDay[m] < FirstDay[k - 1]
    BY <1>2, <2>1
  <2>3. FirstDay[k] = FirstDay[k - 1] + MonthLength[k] /\ MonthLength[k] \in Nat /\ MonthLength[k] >= 1
    BY <2>1, FirstDays
  <2>4. FirstDay[m] \in Nat /\ FirstDay[k] \in Nat /\ FirstDay[k - 1] \in Nat
    BY <2>1, FirstDays
  <2> QED BY <1>2, <2>2, <2>3, <2>4
<1>3. Bad = {}
  <2> HIDE DEF Bad
  <2> QED BY <1>1, <1>2, Least
<1> QED BY <1>3

\* The days that months have, and the months that days have.
Covered == 0..(FirstDay[Last] - 1)
InMonth(day, n) == n \in 0..(Last - 1) /\ FirstDay[n] <= day /\ day < FirstDay[n + 1]

LEMMA MonthOfDay == ASSUME NEW day \in Covered PROVE InMonth(day, MonthOf[day])
<1> DEFINE later == {n \in 0..Last : day < FirstDay[n]}
<1>0. Last \in Nat /\ day \in Nat /\ FirstDay[0] = 0 /\ \A n \in 0..Last : FirstDay[n] \in Nat
  BY FirstDays DEF Covered
<1>1. later \in SUBSET Nat /\ Last \in later
  BY <1>0, FirstDays DEF Covered
<1>2. PICK n \in later : \A m \in later : n <= m
  BY <1>1, Least
<1>3. n # 0
  BY <1>0, <1>2
<1>4. n - 1 \in 0..(Last - 1) /\ n - 1 \in 0..Last /\ ~(n <= n - 1) /\ (n - 1) + 1 = n
  BY <1>0, <1>3
<1>5. FirstDay[n - 1] <= day
  <2>1. n - 1 \notin later
    BY <1>2, <1>4
  <2> HIDE DEF later
  <2>2. ~(day < FirstDay[n - 1])
    BY <1>4, <2>1 DEF later
  <2> QED BY <1>0, <1>4, <2>2
<1>6. InMonth(day, n - 1)
  BY <1>2, <1>4, <1>5 DEF InMonth
<1>7. \E m \in 0..(Last - 1) : FirstDay[m] <= day /\ day < FirstDay[m + 1]
  BY <1>6 DEF InMonth
<1>8. MonthOf[day] = CHOOSE m \in 0..(Last - 1) : FirstDay[m] <= day /\ day < FirstDay[m + 1]
  BY DEF MonthOf, Covered, Last
<1> QED BY <1>7, <1>8 DEF InMonth

\* A later day is of the same month or a later one.
LEMMA MonthsInOrder ==
    ASSUME NEW d \in Covered, NEW e \in Covered, d <= e, NEW m, InMonth(d, m), NEW n, InMonth(e, n)
    PROVE  m <= n
<1>1. CASE n < m
  <2>1. n + 1 \in 0..Last /\ m \in 0..Last /\ (n + 1 = m \/ n + 1 < m)
    BY <1>1, FirstDays DEF InMonth
  <2>2. FirstDay[n + 1] <= FirstDay[m] /\ FirstDay[n + 1] \in Nat /\ FirstDay[m] \in Nat
    BY <2>1, FirstDays, Increasing
  <2>3. d \in Nat /\ e \in Nat
    BY FirstDays DEF Covered
  <2> QED BY <2>2, <2>3 DEF InMonth
<1>2. CASE ~(n < m)
  BY <1>2, FirstDays DEF InMonth
<1> QED BY <1>1, <1>2

\* A day has but one month.
LEMMA MonthUnique ==
    ASSUME NEW d \in Covered, NEW n, InMonth(d, n) PROVE MonthOf[d] = n
<1>1. d <= d /\ n \in Int /\ MonthOf[d] \in Int
  BY MonthOfDay, FirstDays DEF InMonth, Covered
<1> QED BY <1>1, MonthOfDay, MonthsInOrder

\* The day of the month.
LEMMA MdayType ==
    ASSUME NEW d \in Covered
    PROVE  /\ mday(d) \in 1..MonthLength[MonthOf[d] + 1]
           /\ MonthOf[d] \in 0..(Last - 1)
           /\ Billing(d) \in Int
<1>1. InMonth(d, MonthOf[d])
  BY MonthOfDay
<1>2. /\ MonthOf[d] + 1 \in 1..Last /\ MonthOf[d] \in 0..Last /\ d \in Nat
      /\ MonthOf[d] + 1 - 1 = MonthOf[d]
  BY <1>1, FirstDays DEF InMonth, Covered
<1>3. /\ FirstDay[MonthOf[d] + 1] = FirstDay[MonthOf[d]] + MonthLength[MonthOf[d] + 1]
      /\ FirstDay[MonthOf[d]] \in Nat /\ MonthLength[MonthOf[d] + 1] \in Nat
  BY <1>2, FirstDays
<1> QED BY <1>1, <1>2, <1>3 DEF InMonth, mday, Billing

\* The months that begin on MonthRotate do not run backwards either.
LEMMA BillingInOrder ==
    ASSUME NEW d \in Covered, NEW e \in Covered, d <= e PROVE Billing(d) <= Billing(e)
<1>1. MonthOf[d] \in Int /\ MonthOf[e] \in Int /\ MonthOf[d] <= MonthOf[e]
  BY MonthOfDay, MonthsInOrder, MdayType
<1>2. CASE MonthOf[d] = MonthOf[e]
  <2>1. mday(d) <= mday(e)
    <3>1. MonthOf[d] \in 0..Last /\ d \in Int /\ e \in Int
      BY MonthOfDay, FirstDays DEF InMonth, Covered
    <3>2. FirstDay[MonthOf[d]] \in Nat
      BY <3>1, FirstDays
    <3> QED BY <1>2, <3>1, <3>2 DEF mday
  <2>2. mday(d) \in Int /\ mday(e) \in Int /\ MonthRotate \in Int
    BY MdayType, FirstDays
  <2> QED BY <1>1, <1>2, <2>1, <2>2 DEF Billing
<1>3. CASE MonthOf[d] # MonthOf[e]
  BY <1>1, <1>3 DEF Billing
<1> QED BY <1>2, <1>3

\* All that is explored has its month.
LEMMA DaysCovered == Days \subseteq Covered
<1>1. DayOf(MaxNow) \in Nat /\ Last \in 0..Last
  BY CalendarAssumption, DayOfType, FirstDays
<1>2. FirstDay[Last] \in Nat /\ DayOf(MaxNow) < FirstDay[Last]
  BY <1>1, SpanAssumption, FirstDays DEF Last
<1> QED BY <1>1, <1>2 DEF Days, Covered

-----------------------------------------------------------------------------
(***************************************************************************)
(* The months, as long as none goes by unnoticed, and the total.           *)
(***************************************************************************)

\* A record with months and a total.
HasMonths(d) == "month" \in DOMAIN d /\ "total" \in DOMAIN d

Months == 0..(NMonths - 1)

\* The days of a month that begins on MonthRotate.
Own(n) == {d \in Days : Billing(d) = n}

\* The month of an entry: it was opened on MonthRotate or later.
Opened(date, n) == DayOf(date) \in Covered /\ MonthOf[DayOf(date)] = n /\ Billing(DayOf(date)) = n

\* The array months is exact for the log lg; its first entry is the open one,
\* of the month of day last, and the others are of earlier months.
MonthOk(months, lg, last) ==
    /\ months \in [Months -> DayEntries]
    /\ lg \in [Days -> KiB]
    /\ last \in Days
    /\ months[0].used /\ Opened(months[0].date, Billing(last))
    /\ \A d \in Days : d > last => lg[d] = Zero
    /\ \A i \in Months : months[i].used =>
          \E n \in Int :
             /\ Opened(months[i].date, n) /\ (i # 0 => n < Billing(last))
             /\ InKiB(months[i].sum) = Sum(lg, Own(n))

MonthInv ==
    /\ now \in 0..MaxNow /\ lastpass \in 0..MaxNow /\ lastpass <= now
    /\ HasMonths(data)
    /\ ~skipped => MonthOk(data.month, log, DayOf(lastpass))

LEMMA OwnDays ==
    ASSUME NEW n PROVE IsFiniteSet(Own(n)) /\ Own(n) \subseteq Days
<1>1. IsFiniteSet(Days)
  BY CalendarAssumption, DayOfType, FS_Interval DEF Days
<1>2. Own(n) \subseteq Days
  BY DEF Own
<1> QED BY <1>1, <1>2, FS_Subset

\* Where the months are, and what their days are.
LEMMA MonthSizes ==
    /\ NMonths \in Nat \ {0, 1} /\ 0 \in Months /\ NMonths - 1 \in Months /\ NMonths - 1 # 0
    /\ \A d \in Days : d \in Nat /\ d \in Covered /\ Billing(d) \in Int
<1>1. NMonths \in Nat \ {0, 1} /\ 0 \in Months /\ NMonths - 1 \in Months /\ NMonths - 1 # 0
  BY CalendarAssumption DEF Months
<1>2. \A d \in Days : d \in Nat /\ d \in Covered /\ Billing(d) \in Int
  BY DaysCovered, MdayType DEF Days
<1> QED BY <1>1, <1>2

\* Adding to the open month.
LEMMA MonthAddOk ==
    ASSUME NEW months, NEW lg, NEW last, MonthOk(months, lg, last), NEW a \in KiB
    PROVE  MonthOk([i \in Months |->
                    IF i = 0 THEN [date |-> months[0].date, sum |-> Add(months[0].sum, a), used |-> months[0].used]
                    ELSE months[i]],
                   [lg EXCEPT ![last] = Plus(@, a)], last)
<1> DEFINE new == [i \in Months |->
                    IF i = 0 THEN [date |-> months[0].date, sum |-> Add(months[0].sum, a), used |-> months[0].used]
                    ELSE months[i]]
           lg2 == [lg EXCEPT ![last] = Plus(@, a)]
<1>1. /\ months \in [Months -> DayEntries] /\ lg \in [Days -> KiB] /\ last \in Days
      /\ months[0] \in DayEntries /\ months[0].sum \in DaySums
  BY MonthSizes DEF MonthOk, DayEntries
<1>2. Plus(lg[last], a) \in KiB
  BY <1>1, PlusType
<1>3. lg2 \in [Days -> KiB] /\ lg2[last] = Plus(lg[last], a) /\ \A d \in Days \ {last} : lg2[d] = lg[d]
  BY <1>1, <1>2
<1>4. Add(months[0].sum, a) \in DaySums /\ InKiB(Add(months[0].sum, a)) = Plus(InKiB(months[0].sum), a)
  BY <1>1, AddKiB
<1>5. /\ new \in [Months -> DayEntries]
      /\ new[0].sum = Add(months[0].sum, a)
      /\ \A i \in Months : new[i].date = months[i].date /\ new[i].used = months[i].used
      /\ \A i \in Months : i # 0 => new[i] = months[i]
  BY <1>1, <1>4, MonthSizes DEF DayEntries
<1> HIDE DEF new, lg2
<1>6. \A d \in Days : d > last => lg2[d] = Zero
  <2>1. \A d \in Days : d > last => d # last
    BY DEF Days
  <2> QED BY <1>3, <2>1 DEF MonthOk
<1>7. ASSUME NEW i \in Months, new[i].used
      PROVE  \E n \in Int :
                /\ Opened(new[i].date, n) /\ (i # 0 => n < Billing(last))
                /\ InKiB(new[i].sum) = Sum(lg2, Own(n))
  <2>1. PICK n \in Int : /\ Opened(months[i].date, n) /\ (i # 0 => n < Billing(last))
                         /\ InKiB(months[i].sum) = Sum(lg, Own(n))
    BY <1>5, <1>7 DEF MonthOk
  <2>2. IsFiniteSet(Own(n)) /\ \A d \in Own(n) : d \in Days /\ lg[d] \in KiB /\ lg2[d] \in KiB
    BY <1>1, <1>3, OwnDays
  <2>3. CASE i = 0
    <3>1. n = Billing(last) /\ last \in Own(n)
      BY <1>1, <2>1, <2>3 DEF MonthOk, Opened, Own
    <3>2. \A d \in Own(n) \ {last} : lg2[d] = lg[d]
      BY <1>3, <2>2
    <3>3. Sum(lg2, Own(n)) = Plus(Sum(lg, Own(n)), a)
      BY <1>3, <2>2, <3>1, <3>2, SumGrows
    <3> QED BY <1>4, <1>5, <2>1, <2>3, <3>3
  <2>4. CASE i # 0
    <3>1. last \notin Own(n)
      BY <1>1, <2>1, <2>4, MonthSizes DEF Own
    <3>2. \A d \in Own(n) : lg2[d] = lg[d]
      BY <1>3, <2>2, <3>1
    <3>3. Sum(lg2, Own(n)) = Sum(lg, Own(n))
      BY <2>2, <3>2, SumSame
    <3> QED BY <1>5, <2>1, <2>4, <3>3
  <2> QED BY <2>3, <2>4
<1>8. MonthOk(new, lg2, last)
  BY <1>1, <1>3, <1>5, <1>6, <1>7, MonthSizes DEF MonthOk
<1> QED BY <1>8 DEF new, lg2

\* A later day of the same month.
LEMMA MonthStayOk ==
    ASSUME NEW months, NEW lg, NEW last, MonthOk(months, lg, last),
           NEW next \in Days, last <= next, Billing(next) = Billing(last)
    PROVE  MonthOk(months, lg, next)
<1>1. last \in Nat /\ next \in Nat
  BY MonthSizes DEF MonthOk
<1>2. \A d \in Days : d > next => d > last
  BY <1>1, MonthSizes
<1> QED BY <1>2 DEF MonthOk

\* What rotating an array gives.
LEMMA ShiftedIs ==
    ASSUME NEW N \in Nat \ {0}, NEW array \in [0..(N - 1) -> DayEntries]
    PROVE  /\ \A i \in 1..(N - 1) : Shifted(array)[i] = array[i - 1]
           /\ Shifted(array)[0] = [date |-> now, sum |-> ZeroSum, used |-> array[0].used]
           /\ now \in Nat => Shifted(array) \in [0..(N - 1) -> DayEntries]
<1> DEFINE e == array[0]
           f == [e EXCEPT !.date = now, !.sum = ZeroSum]
<1>1. e \in [date : Nat, sum : DaySums, used : BOOLEAN]
  BY DEF DayEntries
<1> HIDE DEF e
<1>2. f \in [date : Nat \cup {now}, sum : DaySums \cup {ZeroSum}, used : BOOLEAN]
  BY <1>1
<1>3. f.date = now /\ f.sum = ZeroSum /\ f.used = e.used
  BY <1>1
<1> HIDE DEF f
<1>4. f = [date |-> now, sum |-> ZeroSum, used |-> e.used]
  BY <1>2, <1>3
<1>5. Shifted(array) = [i \in 0..(N - 1) |-> IF i = 0 THEN f ELSE array[i - 1]]
  BY DEF Shifted, f, e
<1>6. now \in Nat => f \in DayEntries
  BY <1>1, <1>4, Empty DEF DayEntries
<1>7. \A i \in 0..(N - 1) : i # 0 => i - 1 \in 0..(N - 1)
  OBVIOUS
<1>8. now \in Nat => Shifted(array) \in [0..(N - 1) -> DayEntries]
  BY <1>5, <1>6, <1>7
<1>9. 0 \in 0..(N - 1) /\ \A i \in 1..(N - 1) : i \in 0..(N - 1) /\ i # 0
  OBVIOUS
<1> QED BY <1>4, <1>5, <1>8, <1>9 DEF e

\* rotatemonths: a new month opens, and the others move on.
LEMMA MonthShiftOk ==
    ASSUME NEW months, NEW lg, NEW last, MonthOk(months, lg, last), now \in 0..MaxNow,
           last <= DayOf(now), Opened(now, Billing(DayOf(now))), Billing(last) < Billing(DayOf(now))
    PROVE  MonthOk(Shifted(months), lg, DayOf(now))
<1> DEFINE new == Shifted(months)  next == DayOf(now)
<1>1. /\ months \in [Months -> DayEntries] /\ lg \in [Days -> KiB] /\ last \in Days
      /\ next \in Days /\ now \in Nat /\ last \in Nat /\ next \in Nat
      /\ Billing(last) \in Int /\ Billing(next) \in Int
  BY CalendarAssumption, DayInDays, MonthSizes DEF MonthOk
<1>2. /\ new \in [Months -> DayEntries]
      /\ new[0] = [date |-> now, sum |-> ZeroSum, used |-> months[0].used]
      /\ \A i \in Months : i # 0 => i - 1 \in Months /\ new[i] = months[i - 1]
  <2>1. NMonths \in Nat \ {0} /\ \A i \in Months : i # 0 => i - 1 \in Months /\ i \in 1..(NMonths - 1)
    BY MonthSizes DEF Months
  <2> QED BY <1>1, <2>1, ShiftedIs DEF Months
<1> HIDE DEF new
<1>3. \A d \in Days : d > next => d > last
  BY <1>1, MonthSizes
<1>4. Sum(lg, Own(Billing(next))) = Zero
  <2>1. ASSUME NEW d \in Own(Billing(next)) PROVE lg[d] = Zero
    <3>1. d \in Days /\ d \in Covered /\ last \in Covered /\ d \in Nat /\ Billing(d) = Billing(next)
      BY <1>1, MonthSizes DEF Own
    <3>2. ~(d <= last)
      <4>1. CASE d <= last
        <5>1. Billing(d) <= Billing(last)
          BY <3>1, <4>1, BillingInOrder
        <5> QED BY <1>1, <3>1, <5>1
      <4> QED BY <4>1
    <3> QED BY <1>1, <3>1, <3>2 DEF MonthOk
  <2> QED BY <2>1, OwnDays, SumNothing
<1>5. ASSUME NEW i \in Months, new[i].used
      PROVE  \E n \in Int :
                /\ Opened(new[i].date, n) /\ (i # 0 => n < Billing(next))
                /\ InKiB(new[i].sum) = Sum(lg, Own(n))
  <2>1. CASE i = 0
    BY <1>1, <1>2, <1>4, <2>1, Empty
  <2>2. CASE i # 0
    <3>1. i - 1 \in Months /\ new[i] = months[i - 1] /\ months[i - 1].used
      BY <1>2, <1>5, <2>2
    <3>2. PICK n \in Int : /\ Opened(months[i - 1].date, n) /\ (i - 1 # 0 => n < Billing(last))
                           /\ InKiB(months[i - 1].sum) = Sum(lg, Own(n))
      BY <3>1 DEF MonthOk
    <3>3. i - 1 = 0 => n = Billing(last)
      BY <3>2 DEF MonthOk, Opened
    <3> QED BY <1>1, <3>1, <3>2, <3>3
  <2> QED BY <2>1, <2>2
<1>6. MonthOk(new, lg, next)
  BY <1>1, <1>2, <1>3, <1>5, MonthSizes DEF MonthOk
<1> QED BY <1>6 DEF new

\* Numbers with the same remainder are a multiple apart.
LEMMA SameRemainder ==
    ASSUME NEW a \in Nat, NEW b \in Nat, NEW m \in Nat \ {0}, a % m = b % m
    PROVE  (a - b) % m = 0
<1> DEFINE p == a \div m  q == b \div m  r == a % m
<1>1. p \in Int /\ q \in Int /\ r \in 0..(m - 1) /\ a = m * p + r /\ b = m * q + r
  BY DivMod
<1> HIDE DEF p, q, r
<1>2. m * p \in Int /\ m * q \in Int /\ m * (p - q) = m * p - m * q
  BY <1>1
<1>3. a - b = m * (p - q) + 0
  BY <1>1, <1>2
<1>4. a - b \in Int /\ p - q \in Int /\ 0 \in 0..(m - 1)
  BY <1>1
<1> QED BY <1>3, <1>4, DivUnique

\* Whether a billing month goes by unnoticed with this pass.
Missed(last, next) ==
    LET gap == Billing(next) - Billing(last) IN
    gap # 0 /\ (mday(next) < MonthRotate \/ gap % MonthsPerYear = 0)

\* The month is over when the next one has begun, and only then.
LEMMA OverIfLater ==
    ASSUME NEW last \in Days, NEW date, Opened(date, Billing(last)),
           now \in 0..MaxNow, last <= DayOf(now), ~Missed(last, DayOf(now)),
           NEW over, over = (tm_mon(date) # tm_mon(now) /\ tm_mday(now) >= MonthRotate)
    PROVE  /\ over => Opened(now, Billing(DayOf(now))) /\ Billing(last) < Billing(DayOf(now))
           /\ ~over => Billing(DayOf(now)) = Billing(last)
<1> DEFINE next == DayOf(now)  old == Billing(last)  new == Billing(next)
<1>1. /\ next \in Days /\ next \in Covered /\ last \in Covered /\ old \in Int /\ new \in Int
      /\ DayOf(date) \in Covered
  BY DayInDays, MonthSizes DEF Opened
<1>2. /\ MonthOf[next] \in Nat /\ MonthOf[DayOf(date)] \in Nat
      /\ mday(next) \in Nat /\ MonthRotate \in Nat /\ MonthsPerYear \in Nat \ {0}
  BY <1>1, MdayType, FirstDays, CalendarAssumption
<1>3. old <= new /\ MonthOf[DayOf(date)] = old
  BY <1>1, BillingInOrder DEF Opened
<1>4. mday(next) >= MonthRotate => new = MonthOf[next]
  BY <1>2 DEF Billing
<1>5. /\ tm_mon(date) = MonthOf[DayOf(date)] % MonthsPerYear
      /\ tm_mon(now) = MonthOf[next] % MonthsPerYear
      /\ tm_mday(now) = mday(next)
  BY DEF tm_mon, tm_mday
<1>6. new # old => mday(next) >= MonthRotate /\ (new - old) % MonthsPerYear # 0
  BY <1>1, <1>2 DEF Missed
<1> HIDE DEF next, old, new
<1>7. CASE over
  <2>1. new # old
    BY <1>3, <1>4, <1>5, <1>7
  <2>2. old < new /\ new = MonthOf[next]
    BY <1>1, <1>3, <1>4, <1>6, <2>1
  <2> QED BY <1>1, <1>7, <2>2 DEF Opened, next, new, old
<1>8. CASE ~over
  <2>1. ASSUME new # old PROVE FALSE
    <3>1. MonthOf[DayOf(date)] % MonthsPerYear = MonthOf[next] % MonthsPerYear
      BY <1>5, <1>6, <1>8, <2>1
    <3>2. (new - old) % MonthsPerYear = 0
      BY <1>2, <1>3, <1>4, <1>6, <2>1, <3>1, SameRemainder
    <3> QED BY <1>6, <2>1, <3>2
  <2> QED BY <1>8, <2>1 DEF next, new, old
<1> QED BY <1>7, <1>8

\* What a pass does to the months and the total: hours and days are other
\* arrays.
LEMMA MonthSteps ==
    ASSUME NEW d, HasMonths(d), NEW a
    PROVE  /\ HasMonths(UpdateDays(UpdateHours(d, a)))
           /\ UpdateDays(UpdateHours(d, a)).month = d.month
           /\ UpdateDays(UpdateHours(d, a)).total = d.total
           /\ HasMonths(Written(d)) /\ Written(d).month = d.month /\ Written(d).total = d.total
<1>1. ASSUME NEW e, HasMonths(e) PROVE HasMonths(cleanhours(e)) /\ cleanhours(e).month = e.month /\ cleanhours(e).total = e.total
  BY <1>1 DEF cleanhours, HasMonths
<1> DEFINE h == UpdateHours(d, a)
<1>2. HasMonths(h) /\ h.month = d.month /\ h.total = d.total
  BY <1>1 DEF UpdateHours, HasMonths
<1> HIDE DEF h
<1>3. HasMonths(rotatedays(h)) /\ rotatedays(h).month = h.month /\ rotatedays(h).total = h.total
  BY <1>2 DEF rotatedays, HasMonths
<1>4. HasMonths(UpdateDays(h)) /\ UpdateDays(h).month = h.month /\ UpdateDays(h).total = h.total
  BY <1>2, <1>3 DEF UpdateDays, HasMonths
<1>5. HasMonths(Written(d)) /\ Written(d).month = d.month /\ Written(d).total = d.total
  BY DEF Written, HasMonths
<1> QED BY <1>2, <1>4, <1>5 DEF h

\* The open month and the total get the traffic.
LEMMA CurrentMonth ==
    ASSUME NEW d, HasMonths(d), d.month \in [Months -> DayEntries], NEW a
    PROVE  /\ HasMonths(AddCurrent(d, a))
           /\ AddCurrent(d, a).total = Add(d.total, a)
           /\ AddCurrent(d, a).month =
                [i \in Months |->
                    IF i = 0 THEN [date |-> d.month[0].date, sum |-> Add(d.month[0].sum, a), used |-> d.month[0].used]
                    ELSE d.month[i]]
<1>1. 0 \in Months /\ d.month[0] \in DayEntries
  BY MonthSizes
<1>2. /\ HasMonths(AddCurrent(d, a))
      /\ AddCurrent(d, a).month = [d.month EXCEPT ![0].sum = Add(@, a)]
      /\ AddCurrent(d, a).total = Add(d.total, a)
  BY DEF AddCurrent, HasMonths
<1>3. [d.month[0] EXCEPT !.sum = Add(@, a)]
        = [date |-> d.month[0].date, sum |-> Add(d.month[0].sum, a), used |-> d.month[0].used]
  BY <1>1 DEF DayEntries
<1> QED BY <1>1, <1>2, <1>3

\* A pass keeps the months exact, if none was missed.
LEMMA MonthPassOk ==
    ASSUME NEW d, HasMonths(d), NEW lg, NEW last, MonthOk(d.month, lg, last), NEW a \in KiB,
           now \in 0..MaxNow, last <= DayOf(now), ~Missed(last, DayOf(now))
    PROVE  MonthOk(parseifinfo(d, a).month, [lg EXCEPT ![last] = Plus(@, a)], DayOf(now))
<1> DEFINE e == UpdateDays(UpdateHours(AddCurrent(d, a), a))
           lg2 == [lg EXCEPT ![last] = Plus(@, a)]
<1>1. d.month \in [Months -> DayEntries]
  BY DEF MonthOk
<1>2. HasMonths(e) /\ e.month = AddCurrent(d, a).month
  BY <1>1, CurrentMonth, MonthSteps
<1>3. MonthOk(e.month, lg2, last)
  <2> DEFINE new == [i \in Months |->
                       IF i = 0 THEN [date |-> d.month[0].date, sum |-> Add(d.month[0].sum, a),
                                      used |-> d.month[0].used]
                       ELSE d.month[i]]
  <2>1. MonthOk(new, lg2, last)
    BY MonthAddOk
  <2>2. e.month = new
    BY <1>1, <1>2, CurrentMonth
  <2> HIDE DEF new
  <2> QED BY <2>1, <2>2
<1>4. parseifinfo(d, a) = UpdateMonths(e)
  BY DEF parseifinfo
<1> HIDE DEF e, lg2
<1>5. last \in Days /\ DayOf(now) \in Days /\ Opened(e.month[0].date, Billing(last))
  BY <1>3, DayInDays DEF MonthOk
<1> DEFINE over == MonthOver(e)
<1>6. over = (tm_mon(e.month[0].date) # tm_mon(now) /\ tm_mday(now) >= MonthRotate)
  BY DEF MonthOver
<1> HIDE DEF over
<1>7. CASE over
  <2>1. UpdateMonths(e).month = Shifted(e.month)
    BY <1>2, <1>7 DEF UpdateMonths, rotatemonths, HasMonths, over
  <2>2. Opened(now, Billing(DayOf(now))) /\ Billing(last) < Billing(DayOf(now))
    BY <1>5, <1>6, <1>7, OverIfLater
  <2>3. MonthOk(Shifted(e.month), lg2, DayOf(now))
    BY <1>3, <2>2, MonthShiftOk
  <2> QED BY <1>4, <2>1, <2>3 DEF lg2
<1>8. CASE ~over
  <2>1. UpdateMonths(e) = e
    BY <1>8 DEF UpdateMonths, over
  <2>2. Billing(DayOf(now)) = Billing(last)
    BY <1>5, <1>6, <1>8, OverIfLater
  <2>3. MonthOk(e.month, lg2, DayOf(now))
    BY <1>3, <1>5, <2>2, MonthStayOk
  <2> QED BY <1>4, <2>1, <2>3 DEF lg2
<1> QED BY <1>7, <1>8

\* A pass leaves a record with months.
LEMMA MonthsOfPass ==
    ASSUME NEW d, HasMonths(d), NEW a
    PROVE  HasMonths(parseifinfo(d, a))
<1>1. HasMonths(AddCurrent(d, a))
  BY DEF AddCurrent, HasMonths
<1> DEFINE e == UpdateDays(UpdateHours(AddCurrent(d, a), a))
<1>2. HasMonths(e)
  BY <1>1, MonthSteps
<1> HIDE DEF e
<1>3. HasMonths(UpdateMonths(e))
  BY <1>2 DEF UpdateMonths, rotatemonths, HasMonths
<1> QED BY <1>3 DEF parseifinfo, e

\* The month of a new database is the one that is open on that day.
LEMMA FirstMonth ==
    ASSUME now \in Starts
    PROVE  \E date \in Nat :
              /\ Opened(date, Billing(DayOf(now))) /\ date <= now
              /\ initdb.month = [i \in Months |-> IF i = 0 THEN [date |-> date, sum |-> ZeroSum, used |-> TRUE]
                                                  ELSE Unused]
              /\ initdb.total = ZeroSum /\ HasMonths(initdb)
<1> DEFINE day == DayOf(now)
           n == MonthOf[day] - 1
           date == IF tm_mday(now) < MonthRotate THEN mktime(n, MonthRotate, now) ELSE now
<1>1. /\ now \in 0..MaxNow /\ now \in Nat /\ day \in Days /\ day \in Covered /\ Billing(day) >= 0
  BY CalendarAssumption, SpanAssumption, DayInDays, MonthSizes
<1>2. /\ initdb.month = [i \in Months |-> IF i = 0 THEN [date |-> date, sum |-> ZeroSum, used |-> TRUE] ELSE Unused]
      /\ initdb.total = ZeroSum /\ HasMonths(initdb)
  BY DEF initdb, HasMonths, Months
<1>3. /\ MonthOf[day] \in 0..(Last - 1) /\ MonthRotate \in Nat /\ mday(day) \in Nat
      /\ tm_mday(now) = mday(day) /\ Last \in Nat
  BY <1>1, MdayType, FirstDays DEF tm_mday
<1> HIDE DEF day
<1>4. CASE mday(day) < MonthRotate
  <2> DEFINE first == FirstDay[n] + MonthRotate - 1  r == now % DayLength
  <2>1. n = Billing(day)
    BY <1>4 DEF Billing
  <2>2. n \in 0..Last /\ n + 1 \in 1..Last /\ n \in 0..(Last - 1) /\ (n + 1) - 1 = n
    BY <1>1, <1>3, <2>1
  <2> HIDE DEF n
  <2>3. /\ FirstDay[n] \in Nat /\ FirstDay[n + 1] = FirstDay[n] + MonthLength[n + 1]
        /\ MonthLength[n + 1] \in Nat /\ MonthRotate \in 1..MonthLength[n + 1]
        /\ FirstDay[n + 1] \in Nat
    BY <2>2, FirstDays
  <2>4. DayLength \in Nat \ {0} /\ r \in 0..(DayLength - 1) /\ first \in Nat
    <3>1. DayLength \in Nat \ {0}
      BY CalendarAssumption DEF DayLength
    <3>2. r \in 0..(DayLength - 1)
      BY <1>1, <3>1, DivModNat
    <3>3. first \in Nat
      BY <2>3
    <3> QED BY <3>1, <3>2, <3>3
  <2>5. InMonth(first, n)
    BY <2>2, <2>3 DEF InMonth
  <2>6. first \in Covered
    <3>1. n + 1 = Last \/ n + 1 < Last
      BY <1>3, <2>2
    <3>2. n + 1 \in 0..Last /\ Last \in 0..Last /\ FirstDay[Last] \in Nat
      BY <1>3, <2>2, FirstDays
    <3>3. FirstDay[n + 1] <= FirstDay[Last]
      BY <2>3, <3>1, <3>2, Increasing
    <3>4. first < FirstDay[n + 1]
      BY <2>5 DEF InMonth
    <3> HIDE DEF first
    <3> QED BY <2>3, <2>4, <3>2, <3>3, <3>4 DEF Covered
  <2>7. MonthOf[first] = n
    BY <2>5, <2>6, MonthUnique
  <2>8. mday(first) = MonthRotate /\ Billing(first) = n
    BY <1>3, <2>2, <2>3, <2>7 DEF mday, Billing
  <2>9. date = first * DayLength + r
    BY <1>3, <1>4 DEF mktime
  <2> HIDE DEF first, r, date
  <2>10. date \in Nat /\ DayOf(date) = first
    <3>1. first * DayLength = DayLength * first /\ DayLength * first \in Nat
      BY <2>4
    <3>2. date \in Nat /\ date = DayLength * first + r
      BY <2>4, <2>9, <3>1
    <3>3. first = date \div DayLength
      BY <2>4, <3>2, DivUnique
    <3> QED BY <3>2, <3>3 DEF DayOf
  <2>11. date <= now
    <3>1. MonthOf[day] = n + 1 /\ n \in Int
      BY <1>3 DEF n
    <3>2. ~(day <= first)
      <4>1. InMonth(day, n + 1)
        BY <1>1, <3>1, MonthOfDay
      <4>2. CASE day <= first
        <5>1. n + 1 <= n
          BY <1>1, <2>5, <2>6, <4>1, <4>2, MonthsInOrder
        <5> QED BY <3>1, <5>1
      <4> QED BY <4>2
    <3>3. now <= date => day <= first
      BY <1>1, <2>10, DayOfType DEF day
    <3> QED BY <1>1, <2>10, <3>2, <3>3
  <2> QED BY <1>2, <2>1, <2>6, <2>7, <2>8, <2>10, <2>11 DEF Opened, date, n, day
<1>5. CASE ~(mday(day) < MonthRotate)
  <2>1. date = now
    BY <1>3, <1>5
  <2>2. Billing(day) = MonthOf[day]
    BY <1>3, <1>5 DEF Billing
  <2> HIDE DEF date
  <2>3. Opened(now, Billing(day))
    BY <1>1, <2>2 DEF Opened, day
  <2>4. date <= now
    BY <1>1, <2>1
  <2> QED BY <1>1, <1>2, <2>1, <2>3, <2>4 DEF day
<1> QED BY <1>4, <1>5

LEMMA MonthInit == Init => MonthInv
<1> SUFFICES ASSUME Init PROVE MonthInv
  OBVIOUS
<1>1. now \in Starts /\ now \in 0..MaxNow /\ lastpass = now /\ DayOf(now) \in Days /\ now \in Nat
      /\ log = [d \in Days |-> Zero] /\ data = parseifinfo(initdb, Zero)
  BY CalendarAssumption, DayInDays DEF Init
<1>2. PICK date \in Nat :
         /\ Opened(date, Billing(DayOf(now)))
         /\ initdb.month = [i \in Months |-> IF i = 0 THEN [date |-> date, sum |-> ZeroSum, used |-> TRUE]
                                             ELSE Unused]
         /\ initdb.total = ZeroSum /\ HasMonths(initdb)
  BY <1>1, FirstMonth
<1> DEFINE first == [date |-> date, sum |-> ZeroSum, used |-> TRUE]
           months == [i \in Months |-> IF i = 0 THEN first ELSE Unused]
<1>3. first \in DayEntries /\ Unused \in DayEntries /\ Unused.used = FALSE
  BY Empty DEF DayEntries, Unused
<1>4. /\ months \in [Months -> DayEntries] /\ months[0] = first
      /\ \A i \in Months : i # 0 => months[i] = Unused
  BY <1>3, MonthSizes
<1> HIDE DEF months
<1>5. log \in [Days -> KiB] /\ \A d \in Days : log[d] = Zero
  BY <1>1, Empty
<1>6. \A n : Sum(log, Own(n)) = Zero
  BY <1>5, OwnDays, SumNothing
<1>7. MonthOk(months, log, DayOf(now))
  <2>1. Billing(DayOf(now)) \in Int
    BY <1>1, MonthSizes
  <2>2. ASSUME NEW i \in Months, months[i].used
        PROVE  \E n \in Int :
                 /\ Opened(months[i].date, n) /\ (i # 0 => n < Billing(DayOf(now)))
                 /\ InKiB(months[i].sum) = Sum(log, Own(n))
    BY <1>2, <1>3, <1>4, <1>6, <2>1, <2>2, Empty
  <2> QED BY <1>1, <1>2, <1>4, <1>5, <2>2 DEF MonthOk
<1>8. initdb.month = months
  BY <1>2 DEF months
<1>9. DayOf(now) \in Nat /\ Billing(DayOf(now)) \in Int
  BY <1>1, DayOfType, MonthSizes
<1>10. ~Missed(DayOf(now), DayOf(now))
  BY <1>9 DEF Missed
<1>11. MonthOk(data.month, [log EXCEPT ![DayOf(now)] = Plus(@, Zero)], DayOf(now))
  BY <1>1, <1>2, <1>7, <1>8, <1>9, <1>10, MonthPassOk, Empty
<1>12. [log EXCEPT ![DayOf(now)] = Plus(@, Zero)] = log
  BY <1>1, <1>5, Empty
<1>13. HasMonths(data)
  BY <1>1, <1>2, <1>4, <1>8, MonthsOfPass
<1> QED BY <1>1, <1>11, <1>12, <1>13 DEF MonthInv

\* Passes keep the months exact; nothing else touches them.
LEMMA MonthNext == MonthInv /\ [Next]_vars => MonthInv'
<1> SUFFICES ASSUME MonthInv, [Next]_vars PROVE MonthInv'
  OBVIOUS
<1>1. CASE Tick
  <2>1. now' \in 0..MaxNow /\ now' > now /\ UNCHANGED <<data, lastpass, log, skipped>>
    BY <1>1, CalendarAssumption DEF Tick
  <2>2. lastpass <= now'
    BY <2>1, CalendarAssumption DEF MonthInv
  <2> QED BY <2>1, <2>2 DEF MonthInv
<1>2. CASE Pass
  <2>1. PICK a \in Amounts \cup {Zero} :
           /\ now > lastpass /\ data' = Written(parseifinfo(data, a)) /\ lastpass' = now
           /\ log' = [log EXCEPT ![DayOf(lastpass)] = Plus(@, a)] /\ UNCHANGED now
           /\ skipped' = (skipped \/ Missed(DayOf(lastpass), DayOf(now)))
    BY <1>2 DEF Pass, Missed, tm_mday
  <2>2. a \in KiB
    BY CalendarAssumption, Empty DEF KiB
  <2>3. lastpass \in Nat /\ now \in Nat /\ lastpass <= now
    BY CalendarAssumption DEF MonthInv
  <2>4. DayOf(lastpass) <= DayOf(now)
    BY <2>3, DayOfType
  <2>5. HasMonths(parseifinfo(data, a))
    BY MonthsOfPass DEF MonthInv
  <2>6. HasMonths(data') /\ data'.month = parseifinfo(data, a).month
    BY <2>1, <2>5, MonthSteps
  <2>7. ASSUME ~skipped' PROVE MonthOk(data'.month, log', DayOf(lastpass'))
    <3>1. MonthOk(data.month, log, DayOf(lastpass)) /\ ~Missed(DayOf(lastpass), DayOf(now))
      BY <2>1, <2>7 DEF MonthInv
    <3> QED BY <2>1, <2>2, <2>4, <2>6, <3>1, MonthPassOk DEF MonthInv
  <2> QED BY <2>1, <2>3, <2>6, <2>7 DEF MonthInv
<1>3. CASE Touch
  <2>1. data' = Written(data) /\ UNCHANGED <<now, lastpass, log, skipped>>
    BY <1>3 DEF Touch
  <2>2. HasMonths(data') /\ data'.month = data.month
    BY <2>1, MonthSteps DEF MonthInv
  <2> QED BY <2>1, <2>2 DEF MonthInv
<1>4. CASE ClearTop
  <2> DEFINE d == [data EXCEPT !.top10 = [i \in DOMAIN @ |->
                                            [@[i] EXCEPT !.sum = ZeroSum, !.used = FALSE]]]
  <2>1. data' = Written(d) /\ UNCHANGED <<now, lastpass, log, skipped>>
    BY <1>4 DEF ClearTop
  <2>2. HasMonths(d) /\ d.month = data.month
    BY DEF MonthInv, HasMonths
  <2> HIDE DEF d
  <2>3. HasMonths(data') /\ data'.month = data.month
    BY <2>1, <2>2, MonthSteps
  <2> QED BY <2>1, <2>3 DEF MonthInv
<1>5. CASE Retire \/ UNCHANGED vars
  BY <1>5 DEF Retire, vars, MonthInv
<1> QED BY <1>1, <1>2, <1>3, <1>4, <1>5 DEF Next

\* Every month has the traffic of its days, from MonthRotate to the day before
\* it in the next month, for any calendar, any MonthRotate that all months
\* have, any number of entries and any traffic, unless a month went by without
\* an update on MonthRotate or later.
THEOREM MonthsExactAlways == Spec => []MonthsExact
<1>1. MonthInv => MonthsExact
  <2> SUFFICES ASSUME MonthInv, ~skipped, NEW i \in DOMAIN data.month, data.month[i].used
               PROVE  InKiB(data.month[i].sum) = Sum(log, Own(Billing(DayOf(data.month[i].date))))
    BY DEF MonthsExact, Sum, Own
  <2>1. MonthOk(data.month, log, DayOf(lastpass)) /\ DOMAIN data.month = Months
    BY DEF MonthInv, MonthOk
  <2> QED BY <2>1 DEF MonthOk, Opened
<1> QED BY MonthInit, MonthNext, <1>1, PTL DEF Spec

-----------------------------------------------------------------------------
(***************************************************************************)
(* The total is what the months hold and held.                             *)
(***************************************************************************)

Held(months) == [i \in Months |-> InKiB(months[i].sum)]

\* The record d, when the KiB gone are of months that left the array.
TotalOk(d, gone) ==
    /\ HasMonths(d) /\ d.month \in [Months -> DayEntries] /\ d.total \in DaySums
    /\ gone \in KiB
    /\ InKiB(d.total) = Plus(gone, Sum(Held(d.month), Months))

TotalInv == now \in Nat /\ TotalOk(data, dropped)

LEMMA InKiBType == ASSUME NEW s \in DaySums PROVE InKiB(s) \in KiB
<1>1. \A x \in Dir : s[x].mb \in Nat /\ s[x].kb \in Nat
  BY CountersAssumption DEF DaySums
<1>2. \A x \in Dir : InKB(s[x].mb, s[x].kb) \in Nat
  BY <1>1, CountersAssumption DEF InKB
<1> QED BY <1>2 DEF InKiB, KiB

\* Entries hold KiB.
LEMMA HeldType ==
    ASSUME NEW months \in [Months -> DayEntries]
    PROVE  /\ IsFiniteSet(Months) /\ \A i \in Months : Held(months)[i] = InKiB(months[i].sum)
           /\ \A i \in Months : Held(months)[i] \in KiB
           /\ Sum(Held(months), Months) \in KiB
<1>1. IsFiniteSet(Months)
  BY MonthSizes, FS_Interval DEF Months
<1>2. \A s \in DaySums : InKiB(s) \in KiB
  BY InKiBType
<1>3. \A i \in Months : months[i].sum \in DaySums
  BY DEF DayEntries
<1>4. \A i \in Months : Held(months)[i] = InKiB(months[i].sum) /\ Held(months)[i] \in KiB
  BY <1>2, <1>3 DEF Held
<1> QED BY <1>1, <1>4, SumFacts

\* A pass keeps the books, counting what is rotated out.
LEMMA TotalPassOk ==
    ASSUME NEW d, NEW gone, TotalOk(d, gone), NEW a \in KiB, now \in Nat
    PROVE  TotalOk(parseifinfo(d, a),
                   IF MonthOver(d) THEN Plus(gone, InKiB(d.month[NMonths - 1].sum)) ELSE gone)
<1> DEFINE e == UpdateDays(UpdateHours(AddCurrent(d, a), a))
           v == Held(d.month)
           w == Held(e.month)
<1>1. /\ HasMonths(d) /\ d.month \in [Months -> DayEntries] /\ d.total \in DaySums /\ gone \in KiB
      /\ d.month[0] \in DayEntries /\ d.month[0].sum \in DaySums
  BY MonthSizes DEF TotalOk, DayEntries
<1>2. /\ Add(d.month[0].sum, a) \in DaySums
      /\ InKiB(Add(d.month[0].sum, a)) = Plus(InKiB(d.month[0].sum), a)
      /\ Add(d.total, a) \in DaySums
      /\ InKiB(Add(d.total, a)) = Plus(InKiB(d.total), a)
  BY <1>1, AddKiB
<1>3. /\ HasMonths(e) /\ e.total = Add(d.total, a)
      /\ e.month = [i \in Months |->
                      IF i = 0 THEN [date |-> d.month[0].date, sum |-> Add(d.month[0].sum, a),
                                     used |-> d.month[0].used]
                      ELSE d.month[i]]
  <2>1. HasMonths(e) /\ e.month = AddCurrent(d, a).month /\ e.total = AddCurrent(d, a).total
    BY <1>1, CurrentMonth, MonthSteps
  <2> QED BY <1>1, <2>1, CurrentMonth
<1>4. parseifinfo(d, a) = UpdateMonths(e)
  BY DEF parseifinfo
<1> HIDE DEF e
<1>5. /\ e.month \in [Months -> DayEntries]
      /\ e.month[0].sum = Add(d.month[0].sum, a) /\ e.month[0].date = d.month[0].date
      /\ \A i \in Months : i # 0 => e.month[i] = d.month[i]
  BY <1>1, <1>2, <1>3, MonthSizes DEF DayEntries
<1>6. /\ IsFiniteSet(Months)
      /\ \A i \in Months : v[i] = InKiB(d.month[i].sum) /\ v[i] \in KiB
      /\ \A i \in Months : w[i] = InKiB(e.month[i].sum) /\ w[i] \in KiB
      /\ Sum(v, Months) \in KiB /\ Sum(w, Months) \in KiB
  BY <1>1, <1>5, HeldType
<1>7. Sum(w, Months) = Plus(Sum(v, Months), a)
  <2>1. w[0] = Plus(v[0], a) /\ \A i \in Months \ {0} : w[i] = v[i]
    BY <1>2, <1>5, <1>6, MonthSizes
  <2> HIDE DEF v, w
  <2> QED BY <1>6, <2>1, MonthSizes, SumGrows
<1>8. InKiB(d.total) = Plus(gone, Sum(v, Months))
  BY DEF TotalOk
<1> HIDE DEF v, w
<1>9. InKiB(e.total) = Plus(gone, Sum(w, Months)) /\ e.total \in DaySums
  <2>1. \A b, c \in KiB : Plus(Plus(b, c), a) = Plus(b, Plus(c, a))
    BY DEF Plus, KiB
  <2> QED BY <1>1, <1>2, <1>3, <1>6, <1>7, <1>8, <2>1
<1>10. MonthOver(e) = MonthOver(d)
  BY <1>5 DEF MonthOver
<1>11. CASE MonthOver(d)
  <2> DEFINE new == Shifted(e.month)  u == Held(new)  out == InKiB(d.month[NMonths - 1].sum)
             N == NMonths
  <2>1. /\ HasMonths(UpdateMonths(e)) /\ UpdateMonths(e).total = e.total
        /\ UpdateMonths(e).month = new
    BY <1>3, <1>10, <1>11 DEF UpdateMonths, rotatemonths, HasMonths
  <2>2. /\ new \in [Months -> DayEntries] /\ new[0].sum = ZeroSum
        /\ \A i \in 1..(N - 1) : new[i] = e.month[i - 1] /\ i \in Months /\ i - 1 \in Months
    <3>1. N \in Nat \ {0} /\ \A i \in 1..(N - 1) : i \in Months /\ i - 1 \in Months
      BY MonthSizes DEF Months
    <3>2. /\ new \in [Months -> DayEntries] /\ \A i \in 1..(N - 1) : new[i] = e.month[i - 1]
          /\ new[0] = [date |-> now, sum |-> ZeroSum, used |-> e.month[0].used]
      BY <1>5, <3>1, ShiftedIs DEF Months
    <3> QED BY <3>1, <3>2
  <2> HIDE DEF new
  <2>3. /\ \A i \in Months : u[i] = InKiB(new[i].sum) /\ u[i] \in KiB
        /\ Sum(u, Months) \in KiB
    BY <2>2, HeldType
  <2> HIDE DEF u
  <2>4. u[0] = Zero /\ \A i \in 1..(N - 1) : u[i] = w[i - 1]
    BY <1>6, <2>2, <2>3, MonthSizes, Empty
  <2>5. Plus(Sum(u, Months), w[N - 1]) = Sum(w, Months)
    <3>1. N \in Nat \ {0} /\ \A i \in 0..(N - 1) : w[i] \in KiB
      BY <1>6, MonthSizes DEF Months
    <3> HIDE DEF N
    <3> QED BY <2>4, <3>1, SumShifted DEF Months, N
  <2>6. w[N - 1] = out /\ out \in KiB
    BY <1>5, <1>6, MonthSizes
  <2>7. Plus(gone, Sum(w, Months)) = Plus(Plus(gone, out), Sum(u, Months)) /\ Plus(gone, out) \in KiB
    <3>1. \A b, c \in KiB : Plus(gone, Plus(b, c)) = Plus(Plus(gone, c), b)
      BY <1>1 DEF Plus, KiB
    <3> HIDE DEF out
    <3>2. Plus(gone, Sum(w, Months)) = Plus(gone, Plus(Sum(u, Months), out))
      BY <2>5, <2>6
    <3>3. Plus(gone, Plus(Sum(u, Months), out)) = Plus(Plus(gone, out), Sum(u, Months))
      BY <2>3, <2>6, <3>1
    <3>4. Plus(gone, out) \in KiB
      BY <1>1, <2>6, PlusType
    <3> QED BY <3>2, <3>3, <3>4
  <2>8. TotalOk(UpdateMonths(e), Plus(gone, out))
    BY <1>9, <2>1, <2>2, <2>7 DEF TotalOk, u
  <2> QED BY <1>4, <1>11, <2>8
<1>12. CASE ~MonthOver(d)
  <2>1. UpdateMonths(e) = e
    BY <1>10, <1>12 DEF UpdateMonths
  <2>2. TotalOk(e, gone)
    BY <1>1, <1>3, <1>5, <1>9 DEF TotalOk, w
  <2> QED BY <1>4, <1>12, <2>1, <2>2
<1> QED BY <1>11, <1>12

LEMMA TotalInit == Init => TotalInv
<1> SUFFICES ASSUME Init PROVE TotalInv
  OBVIOUS
<1>1. now \in Starts /\ now \in Nat /\ data = parseifinfo(initdb, Zero) /\ dropped = Zero
  BY CalendarAssumption DEF Init
<1>2. PICK date \in Nat :
         /\ initdb.month = [i \in Months |-> IF i = 0 THEN [date |-> date, sum |-> ZeroSum, used |-> TRUE]
                                             ELSE Unused]
         /\ initdb.total = ZeroSum /\ HasMonths(initdb)
  BY <1>1, FirstMonth
<1>3. /\ initdb.month \in [Months -> DayEntries]
      /\ \A i \in Months : initdb.month[i].sum = ZeroSum
  <2>1. [date |-> date, sum |-> ZeroSum, used |-> TRUE] \in DayEntries /\ Unused \in DayEntries
        /\ Unused.sum = ZeroSum
    BY Empty DEF DayEntries, Unused
  <2> QED BY <1>2, <2>1
<1>4. \A i \in Months : Held(initdb.month)[i] = Zero
  BY <1>3, HeldType, Empty
<1>5. Sum(Held(initdb.month), Months) = Zero
  BY <1>3, <1>4, HeldType, SumNothing
<1>6. Zero \in KiB /\ Plus(Zero, Zero) = Zero
  BY Empty
<1>7. TotalOk(initdb, Zero)
  BY <1>2, <1>3, <1>5, <1>6, Empty DEF TotalOk
<1>8. InKiB(initdb.month[NMonths - 1].sum) = Zero
  BY <1>3, MonthSizes, Empty
<1>9. TotalOk(data, Zero)
  <2>1. TotalOk(parseifinfo(initdb, Zero),
                IF MonthOver(initdb) THEN Plus(Zero, InKiB(initdb.month[NMonths - 1].sum)) ELSE Zero)
    BY <1>1, <1>6, <1>7, TotalPassOk
  <2> QED BY <1>1, <1>6, <1>8, <2>1
<1> QED BY <1>1, <1>9 DEF TotalInv

\* Passes keep the books; nothing else touches months or total.
LEMMA TotalNext == TotalInv /\ [Next]_vars => TotalInv'
<1> SUFFICES ASSUME TotalInv, [Next]_vars PROVE TotalInv'
  OBVIOUS
<1>0. ASSUME NEW d, HasMonths(d), d.month = data.month, d.total = data.total, data' = Written(d),
             UNCHANGED <<now, dropped>>
      PROVE  TotalInv'
  <2>1. HasMonths(data') /\ data'.month = data.month /\ data'.total = data.total
    BY <1>0, MonthSteps
  <2> QED BY <1>0, <2>1 DEF TotalInv, TotalOk
<1>1. CASE Tick
  <2>1. now' \in Nat /\ UNCHANGED <<data, dropped>>
    BY <1>1, CalendarAssumption DEF Tick
  <2> QED BY <2>1 DEF TotalInv
<1>2. CASE Pass
  <2>1. PICK a \in Amounts \cup {Zero} :
           /\ data' = Written(parseifinfo(data, a)) /\ UNCHANGED now
           /\ dropped' = IF MonthOver(data)
                            THEN Plus(dropped, InKiB(data.month[NMonths - 1].sum)) ELSE dropped
    BY <1>2 DEF Pass
  <2>2. a \in KiB
    BY CalendarAssumption, Empty DEF KiB
  <2>3. TotalOk(parseifinfo(data, a), dropped')
    BY <2>1, <2>2, TotalPassOk DEF TotalInv
  <2> DEFINE d == parseifinfo(data, a)
  <2> HIDE DEF d
  <2>4. HasMonths(data') /\ data'.month = d.month /\ data'.total = d.total
    BY <2>1, <2>3, MonthSteps DEF TotalOk, d
  <2>5. TotalOk(data', dropped')
    BY <2>3, <2>4 DEF TotalOk, d
  <2> QED BY <2>1, <2>5 DEF TotalInv
<1>3. CASE Touch
  BY <1>0, <1>3 DEF Touch, TotalInv, TotalOk
<1>4. CASE ClearTop
  <2> DEFINE d == [data EXCEPT !.top10 = [i \in DOMAIN @ |->
                                            [@[i] EXCEPT !.sum = ZeroSum, !.used = FALSE]]]
  <2>1. data' = Written(d) /\ UNCHANGED <<now, dropped>>
    BY <1>4 DEF ClearTop
  <2>2. HasMonths(d) /\ d.month = data.month /\ d.total = data.total
    BY DEF TotalInv, TotalOk, HasMonths
  <2> HIDE DEF d
  <2> QED BY <1>0, <2>1, <2>2
<1>5. CASE Retire \/ UNCHANGED vars
  BY <1>5 DEF Retire, vars, TotalInv
<1> QED BY <1>1, <1>2, <1>3, <1>4, <1>5 DEF Next

\* No traffic is lost or counted twice between the total and the months, for
\* any calendar, any number of entries and any traffic, and however long the
\* months go without an update.
THEOREM ConservedAlways == Spec => []Conserved
<1>1. TotalInv => Conserved
  <2> SUFFICES ASSUME TotalInv PROVE Conserved
    OBVIOUS
  <2>1. DOMAIN data.month = Months
    BY DEF TotalInv, TotalOk
  <2>2. OfAll(data.month) = Sum(Held(data.month), Months)
    BY <2>1 DEF OfAll, FoldFunction, Sum, Held
  <2> QED BY <2>2 DEF Conserved, TotalInv, TotalOk
<1> QED BY TotalInit, TotalNext, <1>1, PTL DEF Spec

-----------------------------------------------------------------------------
(***************************************************************************)
(* The top 10.                                                             *)
(***************************************************************************)

Tops == 0..(NTop - 1)

\* The days that the list must account for: those with traffic since it was
\* cleared, up to the open one.
Ended(lg, from, open) == {d \in from..(open - 1) : lg[d] # Zero}

\* The list is full, and some entry with this traffic beats none of it.
BeatsNone(amount, top) ==
    /\ top[NTop - 1].used
    /\ \E e \in DayEntries : InKiB(e.sum) = amount /\ \A i \in Tops : ~Beats(e, top[i])

\* The list top is right for the log lg since day from, when day open is open.
TopOk(top, lg, from, open) ==
    /\ top \in [Tops -> DayEntries]
    /\ from \in 0..open
    /\ \A i, j \in Tops : i < j /\ top[j].used => top[i].used
    /\ \A i, j \in Tops : i < j => ~Beats(top[j], top[i])
    /\ \A i, j \in Tops : i # j /\ top[i].used /\ top[j].used
                             => DayOf(top[i].date) # DayOf(top[j].date)
    /\ \A i \in Tops : ~top[i].used => top[i].sum = ZeroSum
    /\ \A i \in Tops : top[i].used => /\ DayOf(top[i].date) \in Ended(lg, from, open)
                                      /\ InKiB(top[i].sum) = lg[DayOf(top[i].date)]
    /\ \A d \in Ended(lg, from, open) :
          \/ \E i \in Tops : top[i].used /\ DayOf(top[i].date) = d
          \/ BeatsNone(lg[d], top)

\* A record with a top 10 and days.
HasTop(d) == HasDays(d) /\ "top10" \in DOMAIN d

TopInv ==
    /\ DayInv /\ HasTop(data)
    /\ TopOk(data.top10, log, cleared, DayOf(lastpass))

LEMMA TopSizes ==
    /\ 0 \in Tops /\ NTop - 1 \in Tops
    /\ \A i \in Tops : i \in Nat /\ i <= NTop - 1 /\ (i # 0 => i - 1 \in Tops)
    /\ \A i \in Tops : \A j \in 0..i : j \in Tops
  BY CalendarAssumption DEF Tops

\* Days are ordered by their traffic.
LEMMA BeatsOrder ==
    /\ \A e \in DayEntries : MB(e) \in Nat /\ KB(e) \in 0..(2 * (K - 1)) /\ KB(e) \in Nat
    /\ \A e, t, u \in DayEntries :
          /\ Beats(e, t) /\ ~Beats(u, t) => ~Beats(u, e)
          /\ ~Beats(u, t) /\ ~Beats(t, e) => ~Beats(u, e)
<1>1. ASSUME NEW e \in DayEntries PROVE MB(e) \in Nat /\ KB(e) \in 0..(2 * (K - 1)) /\ KB(e) \in Nat
  <2>1. \A x \in Dir : e.sum[x].mb \in Nat /\ e.sum[x].kb \in 0..(K - 1)
    BY DEF DayEntries, DaySums
  <2>2. e.sum["rx"].mb \in Nat /\ e.sum["tx"].mb \in Nat /\ e.sum["rx"].kb \in 0..(K - 1) /\ e.sum["tx"].kb \in 0..(K - 1)
    BY <2>1 DEF Dir
  <2> QED BY <2>2, CountersAssumption DEF MB, KB
<1>2. ASSUME NEW e \in DayEntries, NEW t \in DayEntries, NEW u \in DayEntries
      PROVE  /\ Beats(e, t) /\ ~Beats(u, t) => ~Beats(u, e)
             /\ ~Beats(u, t) /\ ~Beats(t, e) => ~Beats(u, e)
  <2>1. MB(e) \in Nat /\ KB(e) \in Nat /\ MB(t) \in Nat /\ KB(t) \in Nat /\ MB(u) \in Nat /\ KB(u) \in Nat
    BY <1>1
  <2> QED BY <2>1 DEF Beats
<1> QED BY <1>1, <1>2

\* The size of an entry, and what an empty one beats.
LEMMA BeatsSize ==
    ASSUME NEW e \in DayEntries
    PROVE  /\ InKiB(e.sum) \in KiB /\ Size(e) = MB(e) * K + KB(e)
           /\ e.sum = ZeroSum => MB(e) = 0 /\ KB(e) = 0
           /\ MB(e) = 0 /\ KB(e) = 0 => InKiB(e.sum) = Zero
           /\ InKiB(e.sum) = Zero => e.sum = ZeroSum
<1> DEFINE r == e.sum["rx"]  t == e.sum["tx"]
<1>1. r \in [mb : Nat, kb : 0..(K - 1)] /\ t \in [mb : Nat, kb : 0..(K - 1)] /\ e.sum \in DaySums
  BY DEF DayEntries, DaySums, Dir
<1>2. r.mb \in Nat /\ r.kb \in Nat /\ t.mb \in Nat /\ t.kb \in Nat /\ K \in Nat \ {0}
  BY <1>1, CountersAssumption
<1>3. InKiB(e.sum) = [x \in Dir |-> IF x = "rx" THEN r.mb * K + r.kb ELSE t.mb * K + t.kb]
  BY DEF InKiB, InKB, Dir
<1>4. e.sum = [x \in Dir |-> IF x = "rx" THEN r ELSE t] /\ r = [mb |-> r.mb, kb |-> r.kb] /\ t = [mb |-> t.mb, kb |-> t.kb]
  BY <1>1 DEF DaySums, Dir
<1>5. MB(e) = r.mb + t.mb /\ KB(e) = r.kb + t.kb
  BY DEF MB, KB
<1>6. r.mb * K \in Nat /\ t.mb * K \in Nat
  BY <1>2
<1>7. InKiB(e.sum) \in KiB /\ Size(e) = MB(e) * K + KB(e)
  <2>1. InKiB(e.sum)["rx"] = r.mb * K + r.kb /\ InKiB(e.sum)["tx"] = t.mb * K + t.kb
    BY <1>3 DEF Dir
  <2>2. InKiB(e.sum) \in KiB
    BY <1>2, <1>3, <1>6 DEF KiB
  <2>3. (r.mb + t.mb) * K = r.mb * K + t.mb * K
    BY <1>2
  <2> QED BY <1>2, <1>5, <1>6, <2>1, <2>2, <2>3 DEF Size, Both
<1>8. e.sum = ZeroSum => MB(e) = 0 /\ KB(e) = 0
  BY DEF ZeroSum, MB, KB, Dir
<1>9. ASSUME MB(e) = 0, KB(e) = 0 PROVE InKiB(e.sum) = Zero
  <2>1. r.mb = 0 /\ t.mb = 0 /\ r.kb = 0 /\ t.kb = 0
    <3> HIDE DEF r, t
    <3> QED BY <1>2, <1>5, <1>9
  <2>2. r.mb * K + r.kb = 0 /\ t.mb * K + t.kb = 0
    BY <1>2, <2>1
  <2> QED BY <1>3, <2>2 DEF Zero
<1>10. ASSUME InKiB(e.sum) = Zero PROVE e.sum = ZeroSum
  <2>1. r.mb * K + r.kb = 0 /\ t.mb * K + t.kb = 0
    <3>1. InKiB(e.sum)["rx"] = 0 /\ InKiB(e.sum)["tx"] = 0
      BY <1>10 DEF Zero, Dir
    <3> QED BY <1>3, <3>1 DEF Dir
  <2>2. r.kb = 0 /\ t.kb = 0 /\ r.mb = 0 /\ t.mb = 0
    <3>1. \A m, k \in Nat : m * K + k = 0 => m = 0 /\ k = 0
      <4> SUFFICES ASSUME NEW m \in Nat, NEW k \in Nat, m * K + k = 0 PROVE m = 0 /\ k = 0
        OBVIOUS
      <4>1. m * K \in Nat /\ (m # 0 => m * K >= 1)
        BY <1>2
      <4> QED BY <4>1
    <3> HIDE DEF r, t
    <3> QED BY <1>2, <2>1, <3>1
  <2>3. ZeroSum = [x \in Dir |-> [mb |-> 0, kb |-> 0]]
    BY DEF ZeroSum
  <2> HIDE DEF r, t
  <2>4. e.sum = [x \in Dir |-> [mb |-> 0, kb |-> 0]]
    BY <1>4, <2>2
  <2> QED BY <2>3, <2>4
<1> QED BY <1>7, <1>8, <1>9, <1>10

\* Traffic of the open day, or of a day after it, is not looked at.
LEMMA TopSameOk ==
    ASSUME NEW top, NEW lg, NEW from, NEW open \in Nat, TopOk(top, lg, from, open),
           NEW lg2, \A d \in Nat : d < open => lg2[d] = lg[d]
    PROVE  TopOk(top, lg2, from, open)
<1>1. from \in Nat
  BY DEF TopOk
<1>2. \A d \in from..(open - 1) : lg2[d] = lg[d]
  BY <1>1
<1>3. Ended(lg2, from, open) = Ended(lg, from, open)
  BY <1>2 DEF Ended
<1>4. \A d \in Ended(lg, from, open) : lg2[d] = lg[d]
  BY <1>2 DEF Ended
<1>5. \A i \in Tops : top[i].used => lg2[DayOf(top[i].date)] = lg[DayOf(top[i].date)]
  BY <1>4 DEF TopOk
<1> QED BY <1>3, <1>4, <1>5 DEF TopOk

\* Days without traffic end and are not listed.
LEMMA TopLaterOk ==
    ASSUME NEW top, NEW lg, NEW from, NEW open \in Nat, TopOk(top, lg, from, open),
           NEW next \in Nat, open <= next, \A d \in open..(next - 1) : lg[d] = Zero
    PROVE  TopOk(top, lg, from, next)
<1>1. from \in Nat /\ from <= open /\ from \in 0..next
  BY DEF TopOk
<1>2. Ended(lg, from, next) = Ended(lg, from, open)
  <2>1. \A d \in from..(next - 1) : d \in from..(open - 1) \/ d \in open..(next - 1)
    BY <1>1
  <2>2. from..(open - 1) \subseteq from..(next - 1)
    BY <1>1
  <2> QED BY <2>1, <2>2 DEF Ended
<1> QED BY <1>1, <1>2 DEF TopOk

\* What Ranked does when the entry beats some of the list.
LEMMA RankedIs ==
    ASSUME NEW top, DOMAIN top = Tops, NEW e, NEW k \in Tops, Beats(e, top[k])
    PROVE  \E first \in Tops :
              /\ Beats(e, top[first]) /\ \A i \in Tops : i < first => ~Beats(e, top[i])
              /\ Ranked(top, e) = [i \in Tops |-> IF i < first THEN top[i]
                                                  ELSE IF i = first THEN e ELSE top[i - 1]]
<1> DEFINE beaten == {i \in Tops : Beats(e, top[i])}
           first == CHOOSE i \in beaten : \A j \in beaten : i <= j
<1>1. k \in beaten /\ beaten \in SUBSET Nat
  BY TopSizes
<1>2. Ranked(top, e) = [i \in Tops |-> IF i < first THEN top[i]
                                      ELSE IF i = first THEN e ELSE top[i - 1]]
  BY <1>1 DEF Ranked
<1>3. first \in beaten /\ \A j \in beaten : first <= j
  <2> HIDE DEF beaten
  <2>1. \E i \in beaten : \A j \in beaten : i <= j
    BY <1>1, Least
  <2> QED BY <2>1
<1> HIDE DEF first
<1>4. \A i \in Tops : i < first => ~Beats(e, top[i])
  <2> SUFFICES ASSUME NEW i \in Tops, i < first PROVE i \notin beaten
    OBVIOUS
  <2>1. i \in Nat /\ first \in Nat
    BY <1>1, <1>3, TopSizes
  <2> HIDE DEF beaten
  <2> QED BY <1>3, <2>1
<1> QED BY <1>2, <1>3, <1>4

\* A day that ends is ranked.
LEMMA RankOk ==
    ASSUME NEW top, NEW lg, NEW from, NEW open \in Nat, TopOk(top, lg, from, open),
           NEW e \in DayEntries, e.used, DayOf(e.date) = open, InKiB(e.sum) = lg[open],
           NEW next \in Nat, open < next, \A d \in (open + 1)..(next - 1) : lg[d] = Zero
    PROVE  TopOk(Ranked(top, e), lg, from, next)
<1>1. /\ top \in [Tops -> DayEntries] /\ from \in Nat /\ from <= open /\ from \in 0..next
      /\ DOMAIN top = Tops
  BY DEF TopOk
<1>2. CASE e.sum = ZeroSum
  <2>1. lg[open] = Zero
    BY <1>2, Empty
  <2>2. \A d \in open..(next - 1) : lg[d] = Zero
    <3>1. \A d \in open..(next - 1) : d = open \/ d \in (open + 1)..(next - 1)
      OBVIOUS
    <3> QED BY <2>1, <3>1
  <2>3. \A i \in Tops : ~Beats(e, top[i])
    <3> SUFFICES ASSUME NEW i \in Tops PROVE ~Beats(e, top[i])
      OBVIOUS
    <3>1. MB(e) = 0 /\ KB(e) = 0 /\ MB(top[i]) \in Nat /\ KB(top[i]) \in Nat
      BY <1>1, <1>2, BeatsOrder, BeatsSize
    <3> QED BY <3>1 DEF Beats
  <2>4. Ranked(top, e) = top
    BY <1>1, <2>3 DEF Ranked
  <2> QED BY <2>2, <2>4, TopLaterOk
<1>3. CASE e.sum # ZeroSum
  <2>1. lg[open] # Zero
    BY <1>3, BeatsSize
  <2>2. Ended(lg, from, next) = Ended(lg, from, open) \cup {open}
    <3>1. \A d \in from..(next - 1) : d \in from..(open - 1) \/ d = open \/ d \in (open + 1)..(next - 1)
      BY <1>1
    <3>2. open \in from..(next - 1) /\ from..(open - 1) \subseteq from..(next - 1)
      BY <1>1
    <3> QED BY <2>1, <3>1, <3>2 DEF Ended
  <2>3. \A d \in Ended(lg, from, open) : d # open
    BY <1>1 DEF Ended
  <2>4. ASSUME NEW i \in Tops, ~top[i].used PROVE Beats(e, top[i])
    <3>1. MB(top[i]) = 0 /\ KB(top[i]) = 0
      BY <1>1, <2>4, BeatsSize DEF TopOk
    <3>2. MB(e) \in Nat /\ KB(e) \in Nat /\ ~(MB(e) = 0 /\ KB(e) = 0)
      BY <2>1, BeatsOrder, BeatsSize
    <3> QED BY <3>1, <3>2 DEF Beats
  <2>5. CASE \A i \in Tops : ~Beats(e, top[i])
    <3>1. Ranked(top, e) = top
      BY <1>1, <2>5 DEF Ranked
    <3>2. BeatsNone(lg[open], top)
      BY <2>4, <2>5, TopSizes DEF BeatsNone
    <3> QED BY <1>1, <2>2, <3>1, <3>2 DEF TopOk
  <2>6. CASE \E k \in Tops : Beats(e, top[k])
    <3> DEFINE new == Ranked(top, e)
    <3>1. PICK first \in Tops :
             /\ Beats(e, top[first]) /\ \A i \in Tops : i < first => ~Beats(e, top[i])
             /\ new = [i \in Tops |-> IF i < first THEN top[i] ELSE IF i = first THEN e ELSE top[i - 1]]
      BY <1>1, <2>6, RankedIs
    <3>2. /\ \A i \in Tops : i < first => new[i] = top[i]
          /\ new[first] = e
          /\ \A i \in Tops : first < i => new[i] = top[i - 1] /\ i - 1 \in Tops /\ first <= i - 1
          /\ new \in [Tops -> DayEntries]
      BY <1>1, <3>1, TopSizes
    <3>0. \A i \in Tops : i \in Nat /\ (i < first \/ i = first \/ first < i)
      <4>1. first \in Nat /\ \A i \in Tops : i \in Nat
        BY TopSizes
      <4> QED BY <4>1
    <3> HIDE DEF new
    <3>3. \A i \in Tops : i < first => top[i].used
      BY <2>4, <3>1
    <3>4. ASSUME NEW i \in Tops, NEW j \in Tops, i < j, new[j].used PROVE new[i].used
      <4>1. CASE i < first
        BY <3>2, <3>3, <4>1
      <4>2. CASE i = first
        BY <3>2, <4>2
      <4>3. CASE first < i
        <5>1. first < j /\ new[j] = top[j - 1] /\ new[i] = top[i - 1] /\ i - 1 < j - 1
              /\ i - 1 \in Tops /\ j - 1 \in Tops
          BY <3>0, <3>2, <3>4, <4>3
        <5> QED BY <3>4, <5>1 DEF TopOk
      <4> QED BY <3>0, <4>1, <4>2, <4>3
    <3>5. ASSUME NEW i \in Tops, NEW u \in DayEntries, ~Beats(u, top[i]), i = first PROVE ~Beats(u, e)
      BY <1>1, <3>1, <3>5, BeatsOrder
    <3>6. ASSUME NEW i \in Tops, NEW j \in Tops, i < j PROVE ~Beats(new[j], new[i])
      <4>1. CASE j < first
        <5>1. new[i] = top[i] /\ new[j] = top[j]
          BY <3>0, <3>2, <3>6, <4>1
        <5> QED BY <3>6, <5>1 DEF TopOk
      <4>2. CASE j = first
        BY <3>1, <3>2, <3>6, <4>2
      <4>3. CASE first < j
        <5>0. new[j] = top[j - 1] /\ j - 1 \in Tops /\ first <= j - 1 /\ top[j - 1] \in DayEntries
          BY <1>1, <3>2, <4>3
        <5>1. CASE i < first
          <6>1. new[i] = top[i] /\ i < j - 1
            BY <3>0, <3>2, <5>0, <5>1
          <6> QED BY <5>0, <6>1 DEF TopOk
        <5>2. CASE i = first
          <6>1. ~Beats(top[j - 1], top[first])
            <7>1. CASE first < j - 1
              BY <5>0, <7>1 DEF TopOk
            <7>2. CASE first = j - 1
              <8>1. MB(top[first]) \in Nat /\ KB(top[first]) \in Nat
                BY <1>1, BeatsOrder
              <8> QED BY <7>2, <8>1 DEF Beats
            <7> QED BY <3>0, <5>0, <7>1, <7>2
          <6> QED BY <3>2, <3>5, <5>0, <5>2, <6>1
        <5>3. CASE first < i
          <6>1. new[i] = top[i - 1] /\ i - 1 \in Tops /\ i - 1 < j - 1
            BY <3>0, <3>2, <3>6, <5>3
          <6> QED BY <5>0, <6>1 DEF TopOk
        <5> QED BY <3>0, <5>1, <5>2, <5>3
      <4> QED BY <3>0, <4>1, <4>2, <4>3
    \* Every entry but the new one was in the list before.
    <3>7. ASSUME NEW i \in Tops, i # first
          PROVE  \E k \in Tops : new[i] = top[k] /\ k = (IF i < first THEN i ELSE i - 1)
      BY <3>0, <3>2, <3>7
    <3>8. \A k \in Tops : top[k].used => DayOf(top[k].date) \in Ended(lg, from, open)
      BY DEF TopOk
    <3>9. ASSUME NEW i \in Tops, NEW j \in Tops, i # j, new[i].used, new[j].used
          PROVE  DayOf(new[i].date) # DayOf(new[j].date)
      <4>1. CASE i = first
        BY <2>3, <3>2, <3>7, <3>8, <3>9, <4>1
      <4>2. CASE j = first
        BY <2>3, <3>2, <3>7, <3>8, <3>9, <4>2
      <4>3. CASE i # first /\ j # first
        <5>1. PICK k \in Tops : new[i] = top[k] /\ k = (IF i < first THEN i ELSE i - 1)
          BY <3>7, <4>3
        <5>2. PICK m \in Tops : new[j] = top[m] /\ m = (IF j < first THEN j ELSE j - 1)
          BY <3>7, <4>3
        <5>3. k # m
          BY <3>0, <3>9, <4>3, <5>1, <5>2
        <5> QED BY <3>9, <5>1, <5>2, <5>3 DEF TopOk
      <4> QED BY <4>1, <4>2, <4>3
    <3>10. ASSUME NEW i \in Tops, ~new[i].used PROVE new[i].sum = ZeroSum
      BY <3>2, <3>7, <3>10 DEF TopOk
    <3>11. ASSUME NEW i \in Tops, new[i].used
           PROVE  /\ DayOf(new[i].date) \in Ended(lg, from, next)
                  /\ InKiB(new[i].sum) = lg[DayOf(new[i].date)]
      <4>1. CASE i = first
        BY <2>2, <3>2, <4>1
      <4>2. CASE i # first
        BY <2>2, <3>7, <3>11, <4>2 DEF TopOk
      <4> QED BY <4>1, <4>2
    <3>12. ASSUME NEW u \in DayEntries, \A k \in Tops : ~Beats(u, top[k])
           PROVE  \A i \in Tops : ~Beats(u, new[i])
      BY <3>2, <3>5, <3>7, <3>12
    <3>13. NTop - 1 \in Tops /\ \A i \in Tops : i <= NTop - 1
      BY TopSizes
    <3>14. top[NTop - 1].used => new[NTop - 1].used
      <4>1. CASE first = NTop - 1
        BY <3>2, <4>1
      <4>2. CASE first # NTop - 1
        <5>1. new[NTop - 1] = top[NTop - 1 - 1] /\ NTop - 1 - 1 \in Tops
          BY <3>0, <3>2, <3>13, <4>2
        <5>2. NTop - 1 - 1 < NTop - 1
          BY CalendarAssumption
        <5> QED BY <3>13, <5>1, <5>2 DEF TopOk
      <4> QED BY <4>1, <4>2
    <3>15. ASSUME NEW amount, BeatsNone(amount, top) PROVE BeatsNone(amount, new)
      BY <3>12, <3>14, <3>15 DEF BeatsNone
    <3>16. ASSUME NEW d \in Ended(lg, from, next)
           PROVE  \/ \E i \in Tops : new[i].used /\ DayOf(new[i].date) = d
                  \/ BeatsNone(lg[d], new)
      <4>1. CASE d = open
        BY <3>2, <4>1
      <4>2. CASE \E k \in Tops : top[k].used /\ DayOf(top[k].date) = d
        <5>1. PICK k \in Tops : top[k].used /\ DayOf(top[k].date) = d
          BY <4>2
        <5>2. CASE k < first
          BY <3>2, <5>1, <5>2
        <5>3. CASE ~(k < first) /\ k # NTop - 1
          <6>1. k + 1 \in Tops /\ first < k + 1 /\ (k + 1) - 1 = k
            BY <3>0, <3>13, <5>3, CalendarAssumption DEF Tops
          <6>2. new[k + 1] = top[k]
            BY <3>2, <6>1
          <6> QED BY <5>1, <6>1, <6>2
        <5>4. CASE ~(k < first) /\ k = NTop - 1
          <6>1. \A i \in Tops : ~Beats(top[k], top[i])
            <7> SUFFICES ASSUME NEW i \in Tops PROVE ~Beats(top[k], top[i])
              OBVIOUS
            <7>1. CASE i = k
              <8>1. MB(top[k]) \in Nat /\ KB(top[k]) \in Nat
                BY <1>1, BeatsOrder
              <8> QED BY <7>1, <8>1 DEF Beats
            <7>2. CASE i # k
              <8>1. i < k
                BY <3>0, <3>13, <5>4, <7>2
              <8> QED BY <8>1 DEF TopOk
            <7> QED BY <7>1, <7>2
          <6>2. BeatsNone(lg[d], top)
            BY <1>1, <5>1, <5>4, <6>1 DEF BeatsNone, TopOk
          <6> QED BY <3>15, <6>2
        <5> QED BY <5>2, <5>3, <5>4
      <4>3. CASE BeatsNone(lg[d], top)
        BY <3>15, <4>3
      <4> QED BY <2>2, <3>16, <4>1, <4>2, <4>3 DEF TopOk
    <3>17. TopOk(new, lg, from, next)
      BY <1>1, <3>2, <3>4, <3>6, <3>9, <3>10, <3>11, <3>16 DEF TopOk
    <3> QED BY <3>17 DEF new
  <2> QED BY <2>5, <2>6
<1> QED BY <1>2, <1>3

\* The steps of a pass, as far as the list goes: only the change of the day
\* touches it.
LEMMA TopSteps ==
    ASSUME NEW d, HasTop(d), NEW a
    PROVE  /\ HasTop(AddCurrent(d, a)) /\ AddCurrent(d, a).top10 = d.top10
           /\ HasTop(UpdateHours(d, a)) /\ UpdateHours(d, a).top10 = d.top10
           /\ HasTop(UpdateMonths(d)) /\ UpdateMonths(d).top10 = d.top10
           /\ HasTop(Written(d)) /\ Written(d).top10 = d.top10
<1>1. HasTop(AddCurrent(d, a)) /\ AddCurrent(d, a).top10 = d.top10
  BY DEF AddCurrent, HasTop, HasDays
<1>2. HasTop(cleanhours(d)) /\ cleanhours(d).top10 = d.top10
  BY DEF cleanhours, HasTop, HasDays
<1>3. HasTop(UpdateHours(d, a)) /\ UpdateHours(d, a).top10 = d.top10
  BY <1>2 DEF UpdateHours, HasTop, HasDays
<1>4. HasTop(UpdateMonths(d)) /\ UpdateMonths(d).top10 = d.top10
  BY DEF UpdateMonths, rotatemonths, HasTop, HasDays
<1>5. HasTop(Written(d)) /\ Written(d).top10 = d.top10
  BY DEF Written, HasTop, HasDays
<1> QED BY <1>1, <1>3, <1>4, <1>5

\* A pass keeps the list right.
LEMMA TopPassOk ==
    ASSUME NEW d, HasTop(d), NEW lg, NEW last, DayOk(d.day, lg, last), NEW a \in KiB,
           now \in 0..MaxNow, last <= DayOf(now), NEW from, TopOk(d.top10, lg, from, last)
    PROVE  /\ HasTop(parseifinfo(d, a))
           /\ TopOk(parseifinfo(d, a).top10, [lg EXCEPT ![last] = Plus(@, a)], from, DayOf(now))
<1> DEFINE e == UpdateHours(AddCurrent(d, a), a)
           lg2 == [lg EXCEPT ![last] = Plus(@, a)]
           next == DayOf(now)
<1>1. HasTop(e) /\ e.top10 = d.top10 /\ DayOk(e.day, lg2, last)
  BY CurrentOk, TopSteps DEF HasTop
<1>2. /\ last \in Days /\ last \in Nat /\ next \in Days /\ next \in Nat
      /\ \A k \in 0..next : k \in Days
  BY CalendarAssumption, DayInDays, DayOfType DEF DayOk, Days
<1>3. TopOk(e.top10, lg2, from, last)
  <2>1. \A k \in Nat : k < last => lg2[k] = lg[k]
    BY <1>2 DEF DayOk
  <2> HIDE DEF lg2, e
  <2> QED BY <1>1, <1>2, <2>1, TopSameOk
<1>4. parseifinfo(d, a) = UpdateMonths(UpdateDays(e))
  BY DEF parseifinfo
<1> HIDE DEF e, lg2
<1>5. /\ DayOf(e.day[0].date) = last /\ e.day[0].used /\ e.day[0] \in DayEntries
      /\ InKiB(e.day[0].sum) = lg2[last]
      /\ \A k \in (last + 1)..(next - 1) : lg2[k] = Zero
  <2>1. 0 \in Index
    BY CalendarAssumption DEF Index
  <2>2. \A k \in (last + 1)..(next - 1) : k \in Days /\ k > last
    BY <1>2
  <2> QED BY <1>1, <2>1, <2>2 DEF DayOk
<1>6. HasTop(UpdateDays(e)) /\ TopOk(UpdateDays(e).top10, lg2, from, next)
  <2>1. CASE last = next
    <3>1. UpdateDays(e) = e
      BY <1>5, <2>1 DEF UpdateDays
    <3> QED BY <1>1, <1>3, <2>1, <3>1
  <2>2. CASE last # next
    <3>0. last < next /\ DayOf(e.day[0].date) # DayOf(now)
      BY <1>2, <1>5, <2>2
    <3>1. CASE e.day[0].sum = ZeroSum /\ ~TraflessDay
      <4>1. UpdateDays(e) = [e EXCEPT !.day[0].date = now]
        BY <3>0, <3>1 DEF UpdateDays
      <4>2. HasTop(UpdateDays(e)) /\ UpdateDays(e).top10 = e.top10
        BY <1>1, <4>1 DEF HasTop, HasDays
      <4>3. \A k \in last..(next - 1) : lg2[k] = Zero
        <5>1. \A k \in last..(next - 1) : k = last \/ k \in (last + 1)..(next - 1)
          BY <1>2
        <5> QED BY <1>5, <3>1, <5>1, Empty
      <4>4. last <= next
        BY <1>2, <3>0
      <4> HIDE DEF next
      <4> QED BY <1>2, <1>3, <4>2, <4>3, <4>4, TopLaterOk
    <3>2. CASE ~(e.day[0].sum = ZeroSum /\ ~TraflessDay)
      <4>1. UpdateDays(e) = rotatedays(e)
        BY <3>0, <3>2 DEF UpdateDays
      <4>2. HasTop(UpdateDays(e)) /\ UpdateDays(e).top10 = Ranked(e.top10, e.day[0])
        BY <1>1, <4>1 DEF rotatedays, HasTop, HasDays
      <4> HIDE DEF next
      <4> QED BY <1>2, <1>3, <1>5, <3>0, <4>2, RankOk
    <3> QED BY <3>1, <3>2
  <2> QED BY <2>1, <2>2
<1> QED BY <1>4, <1>6, TopSteps DEF lg2

LEMMA TopInit == Init => TopInv
<1> SUFFICES ASSUME Init PROVE TopInv
  OBVIOUS
<1>1. now \in 0..MaxNow /\ lastpass = now /\ DayOf(now) \in Days /\ now \in Nat /\ cleared = 0
      /\ log = [d \in Days |-> Zero] /\ data = parseifinfo(initdb, Zero)
  BY CalendarAssumption, DayInDays DEF Init
<1>2. DayOf(now) \in Nat /\ 0 \in 0..DayOf(now)
  BY <1>1, DayOfType
<1>3. HasTop(initdb) /\ initdb.top10 = [i \in Tops |-> Unused]
  BY DEF initdb, HasTop, HasDays, Tops
<1>4. Unused \in DayEntries /\ Unused.used = FALSE /\ Unused.sum = ZeroSum /\ ~Beats(Unused, Unused)
  <2>1. Unused \in DayEntries /\ Unused.used = FALSE /\ Unused.sum = ZeroSum
    BY Empty DEF DayEntries, Unused
  <2>2. MB(Unused) \in Nat /\ KB(Unused) \in Nat
    BY <2>1, BeatsOrder
  <2> QED BY <2>1, <2>2 DEF Beats
<1>5. /\ log \in [Days -> KiB] /\ \A d \in Days : log[d] = Zero
      /\ \A d \in 0..DayOf(now) : d \in Days
  BY <1>1, <1>2, CalendarAssumption, DayOfType, Empty DEF Days
<1>6. Ended(log, 0, DayOf(now)) = {}
  <2>1. \A d \in 0..(DayOf(now) - 1) : d \in Days
    BY <1>2, <1>5
  <2> QED BY <1>5, <2>1 DEF Ended
<1>7. TopOk(initdb.top10, log, 0, DayOf(now))
  <2> DEFINE top == initdb.top10
  <2>1. top \in [Tops -> DayEntries] /\ \A i \in Tops : top[i] = Unused
    BY <1>3, <1>4
  <2> HIDE DEF top
  <2>2. TopOk(top, log, 0, DayOf(now))
    BY <1>2, <1>4, <1>6, <2>1 DEF TopOk
  <2> QED BY <2>2 DEF top
<1>8. DayOk(initdb.day, log, DayOf(now))
  BY <1>1, FirstDayOk
<1>9. DayOf(now) <= DayOf(now)
  BY <1>2
<1>10. /\ HasTop(data)
       /\ TopOk(data.top10, [log EXCEPT ![DayOf(now)] = Plus(@, Zero)], 0, DayOf(now))
  BY <1>1, <1>3, <1>7, <1>8, <1>9, TopPassOk, Empty
<1>11. [log EXCEPT ![DayOf(now)] = Plus(@, Zero)] = log
  BY <1>1, <1>5, Empty
<1> QED BY <1>1, <1>10, <1>11, DayInit DEF TopInv

\* Passes rank the days that end, clearing starts again; nothing else touches
\* the list.
LEMMA TopNext == TopInv /\ [Next]_vars => TopInv'
<1> SUFFICES ASSUME TopInv, [Next]_vars PROVE TopInv'
  OBVIOUS
<1>0. DayInv'
  BY DayNext DEF TopInv
<1>1. CASE Tick
  BY <1>0, <1>1 DEF Tick, TopInv
<1>2. CASE Pass
  <2>1. PICK a \in Amounts \cup {Zero} :
           /\ now > lastpass /\ data' = Written(parseifinfo(data, a)) /\ lastpass' = now
           /\ log' = [log EXCEPT ![DayOf(lastpass)] = Plus(@, a)] /\ UNCHANGED <<now, cleared>>
    BY <1>2 DEF Pass
  <2>2. a \in KiB
    BY CalendarAssumption, Empty DEF KiB
  <2>3. lastpass \in Nat /\ now \in Nat /\ lastpass <= now /\ now \in 0..MaxNow
    BY CalendarAssumption DEF TopInv, DayInv
  <2>4. DayOf(lastpass) <= DayOf(now)
    BY <2>3, DayOfType
  <2>5. /\ HasTop(parseifinfo(data, a))
        /\ TopOk(parseifinfo(data, a).top10, log', cleared, DayOf(now))
    BY <2>1, <2>2, <2>3, <2>4, TopPassOk DEF TopInv, DayInv
  <2>6. HasTop(data') /\ data'.top10 = parseifinfo(data, a).top10
    BY <2>1, <2>5, TopSteps
  <2> QED BY <1>0, <2>1, <2>5, <2>6 DEF TopInv
<1>3. CASE Touch
  <2>1. data' = Written(data) /\ UNCHANGED <<lastpass, log, cleared>>
    BY <1>3 DEF Touch
  <2>2. HasTop(data') /\ data'.top10 = data.top10
    BY <2>1, TopSteps DEF TopInv
  <2> QED BY <1>0, <2>1, <2>2 DEF TopInv
<1>4. CASE ClearTop
  <2> DEFINE new == [i \in DOMAIN data.top10 |-> [data.top10[i] EXCEPT !.sum = ZeroSum, !.used = FALSE]]
             d == [data EXCEPT !.top10 = new]
             open == DayOf(lastpass)
  <2>1. data' = Written(d) /\ UNCHANGED <<lastpass, log>> /\ cleared' = DayOf(data.day[0].date)
    BY <1>4 DEF ClearTop
  <2>2. HasTop(d) /\ d.top10 = new
    BY DEF TopInv, HasTop, HasDays
  <2>3. HasTop(data') /\ data'.top10 = new
    BY <2>1, <2>2, TopSteps
  <2>4. cleared' = open /\ open \in Nat
    <3>1. open \in Nat
      BY CalendarAssumption, DayOfType DEF TopInv, DayInv
    <3> QED BY <2>1, <3>1 DEF TopInv, DayInv, DayOk
  <2>5. /\ data.top10 \in [Tops -> DayEntries] /\ DOMAIN data.top10 = Tops
    BY DEF TopInv, TopOk
  <2>6. ASSUME NEW i \in Tops PROVE new[i] \in DayEntries /\ new[i].used = FALSE /\ new[i].sum = ZeroSum
    <3> DEFINE t == data.top10[i]
               f == [t EXCEPT !.sum = ZeroSum, !.used = FALSE]
    <3>1. t \in [date : Nat, sum : DaySums, used : BOOLEAN]
      BY <2>5 DEF DayEntries
    <3>2. new[i] = f
      BY <2>5
    <3> HIDE DEF t
    <3>3. f \in [date : Nat, sum : DaySums \cup {ZeroSum}, used : BOOLEAN \cup {FALSE}]
      BY <3>1
    <3>4. f.sum = ZeroSum /\ f.used = FALSE
      BY <3>1
    <3> HIDE DEF f, new
    <3>5. f \in DayEntries
      BY <3>3, Empty DEF DayEntries
    <3> QED BY <3>2, <3>4, <3>5
  <2>7. new \in [Tops -> DayEntries]
    BY <2>5, <2>6
  <2> HIDE DEF new, open
  <2>8. \A i, j \in Tops : ~Beats(new[i], new[j])
    <3> SUFFICES ASSUME NEW i \in Tops, NEW j \in Tops PROVE ~Beats(new[i], new[j])
      OBVIOUS
    <3>1. MB(new[i]) = 0 /\ KB(new[i]) = 0 /\ MB(new[j]) = 0 /\ KB(new[j]) = 0
      BY <2>6, BeatsSize
    <3> QED BY <3>1 DEF Beats
  <2>9. Ended(log, open, open) = {} /\ open \in 0..open
    <3>1. open..(open - 1) = {} /\ open \in 0..open
      BY <2>4
    <3> QED BY <3>1 DEF Ended
  <2>10. TopOk(new, log, open, open)
    BY <2>6, <2>7, <2>8, <2>9 DEF TopOk
  <2> QED BY <1>0, <2>1, <2>3, <2>4, <2>10 DEF TopInv, open
<1>5. CASE Retire \/ UNCHANGED vars
  BY <1>0, <1>5 DEF Retire, vars, TopInv
<1> QED BY <1>1, <1>2, <1>3, <1>4, <1>5 DEF Next

\* Where the entry e does not beat t, it has no more than K - 2 KiB more: at
\* most a MiB less one, from the KiB of both directions.
LEMMA BeatsBound ==
    ASSUME K # 1, NEW e \in DayEntries, NEW t \in DayEntries, ~Beats(e, t)
    PROVE  Size(e) <= Size(t) + K - 2
<1> DEFINE m == MB(e)  k == KB(e)  n == MB(t)  l == KB(t)
<1>1. /\ m \in Nat /\ k \in Nat /\ k <= 2 * (K - 1) /\ n \in Nat /\ l \in Nat
      /\ K \in Nat /\ K >= 2
  BY BeatsOrder, CountersAssumption
<1>2. Size(e) = m * K + k /\ Size(t) = n * K + l
  BY BeatsSize
<1>3. m < n \/ (m = n /\ k <= l)
  BY <1>1 DEF Beats
<1> HIDE DEF m, k, n, l
<1>4. m * K \in Nat /\ n * K \in Nat
  BY <1>1
<1>5. CASE m < n
  <2>1. PICK p \in Nat : n = m + 1 + p
    <3>1. n - m - 1 \in Nat /\ n = m + 1 + (n - m - 1)
      BY <1>1, <1>5
    <3> QED BY <3>1
  <2>2. n * K = m * K + K + p * K /\ p * K \in Nat
    BY <1>1, <2>1
  <2> QED BY <1>1, <1>2, <1>4, <2>2
<1>6. CASE m = n /\ k <= l
  BY <1>1, <1>2, <1>4, <1>6
<1> QED BY <1>3, <1>5, <1>6

\* The list has the days with most traffic, each once and with all its
\* traffic, for any calendar, any number of entries, any traffic, and however
\* often it is cleared; a MiB has more than one KiB.
THEOREM TopBestAlways == ASSUME K # 1 PROVE Spec => []TopBest
<1>1. TopInv => TopBest
  <2> SUFFICES ASSUME TopInv PROVE TopBest
    OBVIOUS
  <2> DEFINE top == data.top10
             used == {i \in DOMAIN top : top[i].used}
             ended == {d \in cleared..(DayOf(data.day[0].date) - 1) : log[d] # Zero}
             listed == {DayOf(top[i].date) : i \in used}
             f == [i \in used |-> DayOf(top[i].date)]
  <2>1. /\ TopOk(top, log, cleared, DayOf(lastpass)) /\ DOMAIN top = Tops
        /\ top \in [Tops -> DayEntries]
    BY DEF TopInv, TopOk
  <2>2. ended = Ended(log, cleared, DayOf(lastpass))
    BY DEF TopInv, DayInv, DayOk, Ended
  <2>3. used = {i \in Tops : top[i].used} /\ used \subseteq Tops
    BY <2>1
  <2>4. f \in [used -> listed] /\ \A i \in used : f[i] = DayOf(top[i].date)
    OBVIOUS
  <2>5. \A i, j \in used : i # j => f[i] # f[j]
    BY <2>1, <2>3, <2>4 DEF TopOk
  <2>6. \A y \in listed : \E i \in used : f[i] = y
    BY <2>4
  <2>7. Cardinality(listed) = Cardinality(used)
    <3>1. IsFiniteSet(Tops)
      BY CalendarAssumption, FS_Interval DEF Tops
    <3>2. IsFiniteSet(used)
      BY <2>3, <3>1, FS_Subset
    <3> HIDE DEF f, used, listed
    <3>3. f \in Bijection(used, listed)
      BY <2>4, <2>5, <2>6 DEF Bijection, Injection, Surjection, IsInjective
    <3> QED BY <3>2, <3>3, FS_Bijection DEF ExistsBijection
  <2> HIDE DEF top, f
  <2>8. listed \subseteq ended
    BY <2>1, <2>2, <2>3 DEF TopOk
  <2>9. \A i \in used : InKiB(top[i].sum) = log[DayOf(top[i].date)]
    BY <2>1, <2>3 DEF TopOk
  <2>10. ASSUME NEW d \in ended \ listed PROVE BeatsNone(log[d], top)
    BY <2>1, <2>2, <2>3, <2>10 DEF TopOk
  <2>11. used = DOMAIN top \/ listed = ended
    <3>1. ASSUME NEW d \in ended \ listed PROVE used = DOMAIN top
      <4>1. \A i \in Tops : i = NTop - 1 \/ i < NTop - 1
        BY TopSizes, CalendarAssumption
      <4>2. \A i \in Tops : top[i].used
        BY <2>1, <2>10, <3>1, <4>1, TopSizes DEF BeatsNone, TopOk
      <4> QED BY <2>1, <2>3, <4>2
    <3> HIDE DEF used, ended, listed
    <3> QED BY <2>8, <3>1
  <2>12. ASSUME NEW i \in used, NEW d \in ended \ listed PROVE Both(log[d]) <= Size(top[i]) + K - 2
    <3>1. PICK e \in DayEntries : InKiB(e.sum) = log[d] /\ \A j \in Tops : ~Beats(e, top[j])
      BY <2>10, <2>12 DEF BeatsNone
    <3>2. i \in Tops /\ top[i] \in DayEntries
      BY <2>1, <2>3
    <3>3. Size(e) <= Size(top[i]) + K - 2
      BY <3>1, <3>2, BeatsBound
    <3> QED BY <3>1, <3>3 DEF Size
  <2>13. ASSUME NEW i \in DOMAIN top, NEW j \in DOMAIN top, i < j PROVE Size(top[j]) <= Size(top[i]) + K - 2
    BY <2>1, <2>13, BeatsBound DEF TopOk
  <2> QED BY <2>7, <2>8, <2>9, <2>11, <2>12, <2>13 DEF TopBest, top
<1> QED BY TopInit, TopNext, <1>1, PTL DEF Spec

-----------------------------------------------------------------------------
(***************************************************************************)
(* The types: every step of a pass leaves a record.                        *)
(***************************************************************************)

Moments == 0..MaxNow
HourEntries == [date : Moments, sum : [Dir -> Nat]]
HourIndex == 0..(HoursPerDay - 1)

\* Records, with their parts named.
LEMMA RecordsAre ==
    Records = [total : Sums, lastupdated : Moments, day : [Index -> Entries],
               month : [Months -> Entries], top10 : [Tops -> Entries],
               hour : [HourIndex -> HourEntries]]
  BY DEF Records, Moments, Index, Months, Tops, HourIndex, HourEntries

\* A part of a record may be replaced by another of its type.
WithSums(d, x, y, z) == [d EXCEPT !.total = x, !.day = y, !.month = z]
WithTop(d, y, z) == [d EXCEPT !.day = y, !.top10 = z]
WithMonth(d, z) == [d EXCEPT !.month = z]
WithHour(d, h) == [d EXCEPT !.hour = h]

LEMMA PartsOf ==
    ASSUME NEW d \in Records
    PROVE  /\ \A x \in Sums, y \in [Index -> Entries], z \in [Months -> Entries] :
                WithSums(d, x, y, z) \in Records
           /\ \A y \in [Index -> Entries], z \in [Tops -> Entries] : WithTop(d, y, z) \in Records
           /\ \A z \in [Months -> Entries] : WithMonth(d, z) \in Records
           /\ \A h \in [HourIndex -> HourEntries] :
                WithHour(d, h) \in Records /\ WithHour(d, h).hour = h
           /\ now \in Moments => Written(d) \in Records
<1>1. d \in [total : Sums, lastupdated : Moments, day : [Index -> Entries],
             month : [Months -> Entries], top10 : [Tops -> Entries],
             hour : [HourIndex -> HourEntries]]
  BY RecordsAre
<1> HIDE DEF Moments, HourEntries, HourIndex
<1>2. \A x \in Sums, y \in [Index -> Entries], z \in [Months -> Entries] :
         WithSums(d, x, y, z) \in Records
  BY <1>1, RecordsAre DEF WithSums
<1>3. \A y \in [Index -> Entries], z \in [Tops -> Entries] : WithTop(d, y, z) \in Records
  BY <1>1, RecordsAre DEF WithTop
<1>4. \A z \in [Months -> Entries] : WithMonth(d, z) \in Records
  BY <1>1, RecordsAre DEF WithMonth
<1>5. \A h \in [HourIndex -> HourEntries] : WithHour(d, h) \in Records /\ WithHour(d, h).hour = h
  BY <1>1, RecordsAre DEF WithHour
<1>6. now \in Moments => Written(d) \in Records
  BY <1>1, RecordsAre DEF Written
<1> QED BY <1>2, <1>3, <1>4, <1>5, <1>6

\* And so may a part of an entry.
LEMMA PartsOfEntry ==
    ASSUME NEW e \in Entries
    PROVE  /\ e.sum \in Sums /\ e.date \in Moments /\ e.used \in BOOLEAN
           /\ \A s \in Sums : [e EXCEPT !.sum = s] \in Entries
           /\ \A t \in Moments : [e EXCEPT !.date = t] \in Entries
           /\ \A t \in Moments, s \in Sums : [e EXCEPT !.date = t, !.sum = s] \in Entries
           /\ \A s \in Sums : [e EXCEPT !.sum = s, !.used = FALSE] \in Entries
<1>1. Entries = [date : Moments, sum : Sums, used : BOOLEAN]
  BY DEF Entries, Moments
<1> QED BY <1>1

LEMMA SumsAre == Sums = DaySums /\ ZeroSum \in Sums /\ Unused \in Entries
<1>1. Sums = DaySums /\ ZeroSum \in Sums
  BY Empty DEF Sums, DaySums
<1>2. 0 \in 0..MaxNow
  BY CalendarAssumption
<1> QED BY <1>1, <1>2 DEF Unused, Entries

LEMMA CurrentType ==
    ASSUME NEW d \in Records, NEW a \in KiB PROVE AddCurrent(d, a) \in Records
<1> DEFINE y == [d.day EXCEPT ![0].sum = Add(@, a)]
           z == [d.month EXCEPT ![0].sum = Add(@, a)]
<1>1. d.total \in Sums /\ d.day \in [Index -> Entries] /\ d.month \in [Months -> Entries]
  BY RecordsAre
<1>2. 0 \in Index /\ 0 \in Months
  BY MonthSizes, CalendarAssumption DEF Index
<1>3. \A s \in Sums : Add(s, a) \in Sums
  BY SumsAre, AddKiB
<1>4. y \in [Index -> Entries]
  <2>1. [d.day[0] EXCEPT !.sum = Add(@, a)] \in Entries
    BY <1>1, <1>2, <1>3, PartsOfEntry
  <2> QED BY <1>1, <1>2, <2>1
<1>5. z \in [Months -> Entries]
  <2>1. [d.month[0] EXCEPT !.sum = Add(@, a)] \in Entries
    BY <1>1, <1>2, <1>3, PartsOfEntry
  <2> QED BY <1>1, <1>2, <2>1
<1>6. AddCurrent(d, a) = WithSums(d, Add(d.total, a), y, z)
  BY DEF AddCurrent, WithSums
<1>7. Add(d.total, a) \in Sums
  BY <1>1, <1>3
<1> HIDE DEF y, z
<1> QED BY <1>4, <1>5, <1>6, <1>7, PartsOf

\* The hours of the day.
LEMMA HourType ==
    ASSUME NEW t \in Moments
    PROVE  /\ tm_hour(t) \in HourIndex /\ t \in Nat
           /\ HourNumber(t) \in 0..HourNumber(MaxNow)
           /\ \A h \in HourIndex : (h + HoursPerDay - 1) % HoursPerDay \in HourIndex
<1>1. t \in Nat /\ MaxNow \in Nat /\ t <= MaxNow /\ MinutesPerHour \in Nat \ {0} /\ HoursPerDay \in Nat \ {0}
  BY CalendarAssumption DEF Moments
<1>2. HourNumber(t) \in Nat /\ HourNumber(MaxNow) \in Nat /\ HourNumber(t) <= HourNumber(MaxNow)
  <2>1. HourNumber(t) \in Nat /\ HourNumber(MaxNow) \in Nat
    BY <1>1, DivModNat DEF HourNumber
  <2>2. HourNumber(t) <= HourNumber(MaxNow)
    BY <1>1, DivMonotone DEF HourNumber
  <2> QED BY <2>1, <2>2
<1>3. tm_hour(t) \in HourIndex
  BY <1>1, <1>2, DivModNat DEF tm_hour, HourIndex
<1>4. ASSUME NEW h \in HourIndex PROVE (h + HoursPerDay - 1) % HoursPerDay \in HourIndex
  <2>1. h + HoursPerDay - 1 \in Nat
    BY <1>1 DEF HourIndex
  <2> QED BY <1>1, <2>1, DivModNat DEF HourIndex
<1> QED BY <1>1, <1>2, <1>3, <1>4

\* What cleanhours leaves of the traffic of an hour.
CleanSum(d, i) ==
    IF TooOld(d.hour[i]) \/ (i = tm_hour(now) /\ tm_mday(d.hour[i].date) # tm_mday(now))
        THEN Zero ELSE d.hour[i].sum

\* The hours after a pass.
LEMMA HoursType ==
    ASSUME NEW d \in Records, NEW a \in KiB, now \in Moments
    PROVE  /\ UpdateHours(d, a) \in Records
           /\ Credited(d) \in HourIndex
           /\ \A i \in HourIndex :
                 /\ UpdateHours(d, a).hour[i].date =
                        IF i = tm_hour(now) THEN now
                        ELSE IF TooOld(d.hour[i]) THEN 0 ELSE d.hour[i].date
                 /\ UpdateHours(d, a).hour[i].sum =
                        IF i = Credited(d) THEN Plus(CleanSum(d, i), a) ELSE CleanSum(d, i)
<1> DEFINE empty == [date |-> 0, sum |-> Zero]
           kept == [i \in DOMAIN d.hour |-> IF TooOld(d.hour[i]) THEN empty ELSE d.hour[i]]
           h == tm_hour(now)
           fresh == [kept EXCEPT ![h] = [date |-> now, sum |-> Zero]]
           clean == IF tm_mday(kept[h].date) # tm_mday(now) THEN fresh ELSE kept
<1>1. d.hour \in [HourIndex -> HourEntries] /\ d.lastupdated \in Moments
  BY RecordsAre
<1>2. h \in HourIndex
  BY HourType
<1>3. empty \in HourEntries /\ [date |-> now, sum |-> Zero] \in HourEntries
  <2>1. 0 \in Moments /\ Zero \in [Dir -> Nat]
    BY CalendarAssumption DEF Moments, Zero
  <2> QED BY <2>1 DEF HourEntries
<1> HIDE DEF empty
<1>4. kept \in [HourIndex -> HourEntries]
  BY <1>1, <1>3
<1>5. fresh \in [HourIndex -> HourEntries]
  <2> HIDE DEF kept
  <2> QED BY <1>2, <1>3, <1>4
<1>6. clean \in [HourIndex -> HourEntries]
  BY <1>4, <1>5
<1>7. cleanhours(d) = WithHour(d, clean)
  BY DEF cleanhours, empty, WithHour
<1> HIDE DEF clean
<1> DEFINE e == cleanhours(d)  c == Credited(d)
           y == [clean EXCEPT ![h].date = now]
           v == Plus(e.hour[c].sum, a)
           z == [y EXCEPT ![c].sum = v]
<1>8. e \in Records /\ e.hour = clean
  BY <1>6, <1>7, PartsOf
<1>9. c \in HourIndex
  BY <1>2, HourType DEF Credited
<1>10. y \in [HourIndex -> HourEntries]
  <2>1. [clean[h] EXCEPT !.date = now] \in HourEntries
    BY <1>2, <1>6 DEF HourEntries
  <2> QED BY <1>2, <1>6, <2>1
<1>11. z \in [HourIndex -> HourEntries]
  <2>1. v \in [Dir -> Nat]
    <3> HIDE DEF e, c
    <3>1. e.hour[c] \in [date : Moments, sum : [Dir -> Nat]]
      BY <1>6, <1>8, <1>9 DEF HourEntries
    <3> QED BY <3>1 DEF Plus, KiB
  <2> HIDE DEF y, c, v
  <2>2. [y[c] EXCEPT !.sum = v] \in HourEntries
    BY <1>9, <1>10, <2>1 DEF HourEntries
  <2> QED BY <1>9, <1>10, <2>2
<1>12. UpdateHours(d, a) = WithHour(e, z)
  <2>1. UpdateHours(d, a) = [e EXCEPT !.hour[h].date = now, !.hour[c].sum = v]
    BY DEF UpdateHours
  <2> DEFINE f == [e EXCEPT !.hour[h].date = now]
             y2 == [e.hour EXCEPT ![h].date = now]
             z2 == [y2 EXCEPT ![c].sum = v]
  <2>2. "hour" \in DOMAIN e
    BY <1>8 DEF Records
  <2> HIDE DEF e, c, h, v
  <2>3. f.hour = y2 /\ f = WithHour(e, y2)
    BY <2>2 DEF WithHour
  <2>4. [f EXCEPT !.hour[c].sum = v] = [f EXCEPT !.hour = z2]
    BY <2>3
  <2>5. [f EXCEPT !.hour = z2] = WithHour(e, z2)
    BY DEF WithHour
  <2>6. z2 = z
    BY <1>8
  <2> HIDE DEF z, z2
  <2>7. UpdateHours(d, a) = [f EXCEPT !.hour[c].sum = v]
    BY <2>1
  <2> HIDE DEF f
  <2> QED BY <2>4, <2>5, <2>6, <2>7
<1>13. ASSUME NEW i \in HourIndex
       PROVE  /\ z[i].date = IF i = h THEN now
                             ELSE IF TooOld(d.hour[i]) THEN 0 ELSE d.hour[i].date
              /\ z[i].sum = IF i = c THEN Plus(CleanSum(d, i), a) ELSE CleanSum(d, i)
  <2>1. \A j \in HourIndex : kept[j] = IF TooOld(d.hour[j]) THEN empty ELSE d.hour[j]
    BY <1>1
  <2>2. clean[i] = IF i = h /\ tm_mday(kept[h].date) # tm_mday(now)
                     THEN [date |-> now, sum |-> Zero] ELSE kept[i]
    BY <1>2, <1>4 DEF clean
  <2>3. empty.sum = Zero /\ empty.date = 0
    BY DEF empty
  <2> HIDE DEF kept
  <2>4. /\ clean[i].sum = CleanSum(d, i)
        /\ i # h => clean[i].date = IF TooOld(d.hour[i]) THEN 0 ELSE d.hour[i].date
    BY <2>1, <2>2, <2>3 DEF CleanSum
  <2>5. i = c => v = Plus(CleanSum(d, i), a)
    BY <1>8, <2>4
  <2> HIDE DEF v, c, h
  <2>6. y[i].date = (IF i = h THEN now ELSE clean[i].date) /\ y[i].sum = clean[i].sum
    BY <1>2, <1>6 DEF HourEntries
  <2>7. z[i].date = y[i].date /\ z[i].sum = IF i = c THEN v ELSE y[i].sum
    <3> HIDE DEF y
    <3> QED BY <1>9, <1>10 DEF HourEntries
  <2> HIDE DEF y, z
  <2> QED BY <2>4, <2>5, <2>6, <2>7
<1>14. WithHour(e, z) \in Records /\ WithHour(e, z).hour = z
  <2> HIDE DEF e, z
  <2> QED BY <1>8, <1>11, PartsOf
<1> HIDE DEF z
<1> QED BY <1>9, <1>12, <1>13, <1>14

\* The days and the months after a pass.
LEMMA ShiftedType ==
    ASSUME NEW N \in Nat \ {0}, NEW array \in [0..(N - 1) -> Entries], now \in Moments
    PROVE  Shifted(array) \in [0..(N - 1) -> Entries]
<1>1. 0 \in 0..(N - 1) /\ \A i \in 0..(N - 1) : i # 0 => i - 1 \in 0..(N - 1)
  OBVIOUS
<1> DEFINE first == [array[0] EXCEPT !.date = now, !.sum = ZeroSum]
<1>2. first \in Entries
  BY <1>1, SumsAre, PartsOfEntry
<1>3. Shifted(array) = [i \in 0..(N - 1) |-> IF i = 0 THEN first ELSE array[i - 1]]
  BY DEF Shifted
<1> HIDE DEF first
<1> QED BY <1>1, <1>2, <1>3

LEMMA RankedType ==
    ASSUME NEW top \in [Tops -> Entries], NEW e \in Entries PROVE Ranked(top, e) \in [Tops -> Entries]
<1>1. CASE \E k \in Tops : Beats(e, top[k])
  <2>1. PICK first \in Tops :
           Ranked(top, e) = [i \in Tops |-> IF i < first THEN top[i]
                                            ELSE IF i = first THEN e ELSE top[i - 1]]
    BY <1>1, RankedIs
  <2>2. \A i \in Tops : i < first \/ i = first \/ i - 1 \in Tops
    BY TopSizes
  <2> QED BY <2>1, <2>2
<1>2. CASE ~\E k \in Tops : Beats(e, top[k])
  BY <1>2 DEF Ranked
<1> QED BY <1>1, <1>2

LEMMA DayType ==
    ASSUME NEW d \in Records, now \in Moments PROVE UpdateDays(d) \in Records
<1>1. /\ d.day \in [Index -> Entries] /\ d.top10 \in [Tops -> Entries] /\ 0 \in Index
      /\ d.day[0] \in Entries /\ NDays \in Nat \ {0}
  BY RecordsAre, CalendarAssumption DEF Index
<1> DEFINE renamed == [d.day EXCEPT ![0].date = now]
<1>2. renamed \in [Index -> Entries]
  <2>1. [d.day[0] EXCEPT !.date = now] \in Entries
    BY <1>1, PartsOfEntry
  <2> QED BY <1>1, <2>1
<1>3. [d EXCEPT !.day[0].date = now] = WithTop(d, renamed, d.top10)
  BY <1>1, RecordsAre DEF WithTop
<1>4. rotatedays(d) = WithTop(d, Shifted(d.day), Ranked(d.top10, d.day[0]))
  BY DEF rotatedays, WithTop
<1>5. Shifted(d.day) \in [Index -> Entries] /\ Ranked(d.top10, d.day[0]) \in [Tops -> Entries]
  BY <1>1, ShiftedType, RankedType DEF Index
<1>6. rotatedays(d) \in Records
  BY <1>4, <1>5, PartsOf
<1>7. WithTop(d, renamed, d.top10) \in Records
  BY <1>1, <1>2, PartsOf
<1> QED BY <1>3, <1>6, <1>7 DEF UpdateDays

LEMMA MonthType ==
    ASSUME NEW d \in Records, now \in Moments PROVE UpdateMonths(d) \in Records
<1>1. d.month \in [Months -> Entries] /\ NMonths \in Nat \ {0}
  BY RecordsAre, CalendarAssumption
<1>2. Shifted(d.month) \in [Months -> Entries]
  BY <1>1, ShiftedType DEF Months
<1>3. rotatemonths(d) = WithMonth(d, Shifted(d.month))
  BY DEF rotatemonths, WithMonth
<1>4. rotatemonths(d) \in Records
  BY <1>2, <1>3, PartsOf
<1> QED BY <1>4 DEF UpdateMonths

LEMMA PassType ==
    ASSUME NEW d \in Records, NEW a \in KiB, now \in Moments PROVE parseifinfo(d, a) \in Records
<1>1. AddCurrent(d, a) \in Records
  BY CurrentType
<1>2. UpdateHours(AddCurrent(d, a), a) \in Records
  BY <1>1, HoursType
<1>3. UpdateDays(UpdateHours(AddCurrent(d, a), a)) \in Records
  BY <1>2, DayType
<1> QED BY <1>3, MonthType DEF parseifinfo

\* A new database, whose month began before now.
LEMMA FirstType == ASSUME now \in Starts PROVE initdb \in Records
<1>1. now \in Moments /\ Unused \in Entries /\ ZeroSum \in Sums
  BY CalendarAssumption, SumsAre DEF Moments
<1>2. PICK date \in Nat :
         /\ date <= now
         /\ initdb.month = [i \in Months |-> IF i = 0 THEN [date |-> date, sum |-> ZeroSum, used |-> TRUE]
                                             ELSE Unused]
  BY FirstMonth
<1>3. date \in Moments
  BY <1>1, <1>2, CalendarAssumption DEF Moments
<1>4. initdb.month \in [Months -> Entries]
  <2>1. [date |-> date, sum |-> ZeroSum, used |-> TRUE] \in Entries
    BY <1>1, <1>3 DEF Entries, Moments
  <2> QED BY <1>1, <1>2, <2>1
<1> DEFINE open == [Unused EXCEPT !.date = now, !.used = TRUE]
           days == [i \in Index |-> IF i = 0 THEN open ELSE Unused]
           tops == [i \in Tops |-> Unused]
           hours == [i \in HourIndex |-> [date |-> 0, sum |-> Zero]]
<1>5. open \in Entries
  <2>1. Unused \in [date : Moments, sum : Sums, used : BOOLEAN]
    BY <1>1 DEF Entries, Moments
  <2>2. open \in [date : Moments, sum : Sums, used : BOOLEAN]
    BY <1>1, <2>1
  <2> QED BY <2>2 DEF Entries, Moments
<1>6. days \in [Index -> Entries] /\ tops \in [Tops -> Entries]
  <2> HIDE DEF open
  <2> QED BY <1>1, <1>5
<1>7. hours \in [HourIndex -> HourEntries]
  <2>1. 0 \in Moments /\ Zero \in [Dir -> Nat]
    BY CalendarAssumption DEF Moments, Zero
  <2>2. [date |-> 0, sum |-> Zero] \in HourEntries
    BY <2>1 DEF HourEntries
  <2> QED BY <2>2
<1> DEFINE months == initdb.month
<1>8. initdb = [total |-> ZeroSum, lastupdated |-> now, day |-> days, month |-> months,
                top10 |-> tops, hour |-> hours]
  BY DEF initdb, Index, Tops, HourIndex
<1> HIDE DEF days, tops, hours, months
<1>9. months \in [Months -> Entries]
  BY <1>4 DEF months
<1> QED BY <1>1, <1>6, <1>7, <1>8, <1>9, RecordsAre

LEMMA TypeInit == Init => TypeOK
<1> SUFFICES ASSUME Init PROVE TypeOK
  OBVIOUS
<1>1. /\ now \in Starts /\ now \in Moments /\ lastpass = now /\ data = parseifinfo(initdb, Zero)
      /\ retired = NoRecord
      /\ log = [d \in Days |-> Zero]
      /\ hourlog = [h \in 0..HourNumber(MaxNow) |-> Zero]
      /\ dropped = Zero /\ cleared = 0 /\ busy = 0 /\ skipped = FALSE /\ saves = 0
  BY CalendarAssumption DEF Init, Moments
<1>2. Zero \in [Dir -> Nat]
  BY Empty DEF KiB
<1>3. data \in Records
  BY <1>1, FirstType, PassType, Empty
<1>4. 0 \in Days /\ 0 \in 0..MaxTraffic /\ 0 \in 0..MaxSaves
  <2>1. MaxNow \in Nat /\ MaxTraffic \in Nat /\ MaxSaves \in Nat
    BY CalendarAssumption
  <2>2. DayOf(MaxNow) \in Nat
    BY <2>1, DayOfType
  <2> QED BY <2>1, <2>2 DEF Days
<1> HIDE DEF TypeOK
<1> QED BY <1>1, <1>2, <1>3, <1>4 DEF TypeOK, Moments

\* Every step leaves records records, with sums in normal form.
LEMMA TypeNext == TypeOK /\ [Next]_vars => TypeOK'
<1> SUFFICES ASSUME TypeOK, [Next]_vars PROVE TypeOK'
  OBVIOUS
<1>1. now \in Moments /\ lastpass \in Moments /\ data \in Records
  BY DEF TypeOK, Moments
<1>2. CASE Tick
  <2>1. now' \in 0..MaxNow
    BY <1>2, CalendarAssumption DEF Tick
  <2> QED BY <1>2, <2>1 DEF Tick, TypeOK
<1>3. CASE Pass
  <2>1. PICK a \in Amounts \cup {Zero} :
           /\ a # Zero => busy < MaxTraffic
           /\ busy' = IF a = Zero THEN busy ELSE busy + 1
           /\ data' = Written(parseifinfo(data, a)) /\ lastpass' = now
           /\ log' = [log EXCEPT ![DayOf(lastpass)] = Plus(@, a)]
           /\ hourlog' = [hourlog EXCEPT ![OwnHour] = Plus(@, a)]
           /\ dropped' = IF MonthOver(data)
                           THEN Plus(dropped, InKiB(data.month[NMonths - 1].sum)) ELSE dropped
           /\ skipped' \in BOOLEAN
           /\ UNCHANGED <<now, retired, cleared, saves>>
    BY <1>3 DEF Pass, TypeOK
  <2>2. a \in KiB
    BY CalendarAssumption, Empty DEF KiB
  <2>3. data' \in Records
    <3>1. parseifinfo(data, a) \in Records
      BY <1>1, <2>2, PassType
    <3> QED BY <1>1, <2>1, <3>1, PartsOf
  <2>4. log' \in [Days -> [Dir -> Nat]] /\ hourlog' \in [0..HourNumber(MaxNow) -> [Dir -> Nat]]
    <3>1. \A b \in [Dir -> Nat] : Plus(b, a) \in [Dir -> Nat]
      BY <2>2, PlusType DEF KiB
    <3>2. log \in [Days -> [Dir -> Nat]] /\ hourlog \in [0..HourNumber(MaxNow) -> [Dir -> Nat]]
      BY DEF TypeOK
    <3> QED BY <2>1, <3>1, <3>2
  <2>5. dropped' \in [Dir -> Nat]
    <3>1. data.month[NMonths - 1].sum \in DaySums
      <4>1. data.month[NMonths - 1] \in Entries
        BY <1>1, RecordsAre, MonthSizes
      <4> QED BY <4>1, PartsOfEntry, SumsAre
    <3>2. InKiB(data.month[NMonths - 1].sum) \in KiB
      BY <3>1, InKiBType
    <3>3. dropped \in KiB
      BY DEF TypeOK, KiB
    <3>4. Plus(dropped, InKiB(data.month[NMonths - 1].sum)) \in KiB
      BY <3>2, <3>3, PlusType
    <3> QED BY <2>1, <3>3, <3>4 DEF KiB
  <2>6. busy' \in 0..MaxTraffic
    BY <2>1, CalendarAssumption DEF TypeOK
  <2> QED BY <2>1, <2>3, <2>4, <2>5, <2>6 DEF TypeOK
<1>4. CASE Touch
  <2>1. data' \in Records
    BY <1>1, <1>4, PartsOf DEF Touch
  <2>2. saves' \in 0..MaxSaves
    BY <1>4, CalendarAssumption DEF Touch, TypeOK
  <2> QED BY <1>4, <2>1, <2>2 DEF Touch, TypeOK
<1>5. CASE ClearTop
  <2> DEFINE new == [i \in DOMAIN data.top10 |-> [data.top10[i] EXCEPT !.sum = ZeroSum, !.used = FALSE]]
             d == WithTop(data, data.day, new)
  <2>1. data.top10 \in [Tops -> Entries] /\ data.day \in [Index -> Entries] /\ 0 \in Index
    BY <1>1, RecordsAre, CalendarAssumption DEF Index
  <2>2. new \in [Tops -> Entries]
    BY <2>1, SumsAre, PartsOfEntry
  <2>3. [data EXCEPT !.top10 = new] = d
    BY <1>1, <2>1, RecordsAre DEF WithTop
  <2>4. data' = Written([data EXCEPT !.top10 = new]) /\ cleared' = DayOf(data.day[0].date)
    BY <1>5 DEF ClearTop
  <2> HIDE DEF new
  <2>5. d \in Records
    BY <1>1, <2>1, <2>2, PartsOf
  <2> HIDE DEF d
  <2>6. data' \in Records
    BY <1>1, <2>3, <2>4, <2>5, PartsOf
  <2>7. cleared' \in Days
    BY <2>1, <2>4, PartsOfEntry, DayInDays DEF Moments
  <2>8. saves' \in 0..MaxSaves
    <3>1. saves < MaxSaves /\ saves' = saves + 1
      BY <1>5 DEF ClearTop
    <3> QED BY <3>1, CalendarAssumption DEF TypeOK
  <2> QED BY <1>5, <2>6, <2>7, <2>8 DEF ClearTop, TypeOK
<1>6. CASE Retire
  BY <1>6 DEF Retire, TypeOK
<1>7. CASE UNCHANGED vars
  BY <1>7 DEF vars, TypeOK
<1> QED BY <1>2, <1>3, <1>4, <1>5, <1>6, <1>7 DEF Next

\* The record keeps its form for any calendar, any sizes of the arrays and any
\* traffic: above all, the sums of days, months and top 10 stay normalised
\* (a KiB part of less than a MiB) through all additions and rotations.
THEOREM TypeCorrect == Spec => []TypeOK
<1> QED BY TypeInit, TypeNext, PTL DEF Spec

-----------------------------------------------------------------------------
(***************************************************************************)
(* The hours: an entry for each hour of the day, of today or of yesterday. *)
(***************************************************************************)

\* Numbers with the same remainder that are at most two turns apart.
LEMMA TurnsApart ==
    ASSUME NEW m \in Nat \ {0}, NEW a \in Nat, NEW b \in Nat, a % m = b % m, b <= a, a <= b + 2 * m
    PROVE  a = b \/ a = b + m \/ a = b + 2 * m
<1> DEFINE p == a \div m  q == b \div m  r == a % m
<1>1. p \in Nat /\ q \in Nat /\ r \in 0..(m - 1) /\ a = m * p + r /\ b = m * q + r
  BY DivModNat
<1> HIDE DEF p, q, r
<1>2. m * p \in Nat /\ m * q \in Nat
  BY <1>1
<1>3. CASE p < q
  <2>1. PICK t \in Nat : q = p + 1 + t
    <3>1. q - p - 1 \in Nat /\ q = p + 1 + (q - p - 1)
      BY <1>1, <1>3
    <3> QED BY <3>1
  <2>2. m * q = m * p + m + m * t /\ m * t \in Nat
    BY <1>1, <2>1
  <2> QED BY <1>1, <1>2, <2>2
<1>4. CASE p = q
  BY <1>1, <1>4
<1>5. CASE p = q + 1
  <2>1. m * p = m * q + m
    BY <1>1, <1>5
  <2> QED BY <1>1, <1>2, <2>1
<1>6. CASE p = q + 2
  <2>1. m * p = m * q + 2 * m
    BY <1>1, <1>6
  <2> QED BY <1>1, <1>2, <2>1
<1>7. CASE p > q + 2
  <2>1. PICK t \in Nat : p = q + 3 + t
    <3>1. p - q - 3 \in Nat /\ p = q + 3 + (p - q - 3)
      BY <1>1, <1>7
    <3> QED BY <3>1
  <2>2. m * p = m * q + 3 * m + m * t /\ m * t \in Nat
    BY <1>1, <2>1
  <2> QED BY <1>1, <1>2, <2>2
<1> QED BY <1>1, <1>3, <1>4, <1>5, <1>6, <1>7

\* A remainder may be taken before something is added.
LEMMA RemainderFirst ==
    ASSUME NEW m \in Nat \ {0}, NEW a \in Nat, NEW b \in Int, (a % m) + b >= 0
    PROVE  a + b \in Nat /\ ((a % m) + b) % m = (a + b) % m
<1> DEFINE p == a \div m  r == a % m  s == r + b
<1>1. p \in Nat /\ r \in 0..(m - 1) /\ a = m * p + r
  BY DivModNat
<1>2. s \in Nat
  BY <1>1
<1> DEFINE q == s \div m  t == s % m
<1>3. q \in Nat /\ t \in 0..(m - 1) /\ s = m * q + t
  BY <1>2, DivModNat
<1> HIDE DEF p, q, t
<1>4. m * p \in Nat /\ m * q \in Nat /\ m * (p + q) = m * p + m * q
  BY <1>1, <1>3
<1>5. a + b = m * p + s
  BY <1>1
<1> HIDE DEF s, r
<1>6. a + b = m * (p + q) + t /\ p + q \in Int /\ a + b \in Nat /\ a + b \in Int
  BY <1>1, <1>2, <1>3, <1>4, <1>5
<1>7. t = (a + b) % m
  BY <1>3, <1>6, DivUnique
<1> QED BY <1>6, <1>7 DEF t, s, r

\* Minutes make hours, and hours make days.
LEMMA HoursOfDay ==
    ASSUME NEW t \in Nat
    PROVE  /\ HourNumber(t) \in Nat /\ tm_min(t) \in 0..(MinutesPerHour - 1)
           /\ t = MinutesPerHour * HourNumber(t) + tm_min(t)
           /\ DayOf(t) = HourNumber(t) \div HoursPerDay
           /\ HourNumber(t + DayLength) = HourNumber(t) + HoursPerDay
           /\ DayOf(t + DayLength) = DayOf(t) + 1
<1> DEFINE m == MinutesPerHour  n == HoursPerDay  q == t \div m  r == t % m  p == q \div n  s == q % n
<1>1. m \in Nat \ {0} /\ n \in Nat \ {0} /\ DayLength = n * m /\ DayLength \in Nat \ {0}
  BY CalendarAssumption DEF DayLength
<1>2. q \in Nat /\ r \in 0..(m - 1) /\ t = m * q + r
  BY <1>1, DivModNat
<1>3. p \in Nat /\ s \in 0..(n - 1) /\ q = n * p + s
  BY <1>1, <1>2, DivModNat
<1>4. HourNumber(t) = q /\ tm_min(t) = r
  BY DEF HourNumber, tm_min
<1> HIDE DEF q, r, p, s
<1>5. m * q = (n * m) * p + m * s /\ m * s \in Nat /\ (n * m) * p \in Nat
  BY <1>1, <1>2, <1>3
<1>6. m * s + r <= n * m - 1
  <2>1. PICK u \in Nat : n = s + 1 + u
    <3>1. n - s - 1 \in Nat /\ n = s + 1 + (n - s - 1)
      BY <1>1, <1>3
    <3> QED BY <3>1
  <2>2. n * m = m * s + m + m * u /\ m * u \in Nat
    BY <1>1, <1>3, <2>1
  <2> QED BY <1>1, <1>2, <1>5, <2>2
<1>7. DayOf(t) = p
  <2> DEFINE w == m * s + r
  <2>1. w \in 0..(DayLength - 1) /\ t = DayLength * p + w
    BY <1>1, <1>2, <1>5, <1>6
  <2> HIDE DEF w, m, n
  <2>2. p = t \div DayLength
    BY <1>1, <1>3, <2>1, DivUnique
  <2> QED BY <2>2 DEF DayOf
<1>8. HourNumber(t + DayLength) = q + n
  <2>1. m * (q + n) = m * q + n * m
    BY <1>1, <1>2
  <2>2. t + DayLength = m * (q + n) + r /\ q + n \in Int /\ t + DayLength \in Int
    BY <1>1, <1>2, <2>1
  <2> HIDE DEF m, n
  <2>3. q + n = (t + DayLength) \div m
    BY <1>1, <1>2, <2>2, DivUnique
  <2> QED BY <2>3 DEF HourNumber, m
<1>9. DayOf(t + DayLength) = p + 1
  <2> DEFINE w == m * s + r
  <2>1. w \in 0..(DayLength - 1) /\ t = DayLength * p + w
    BY <1>1, <1>2, <1>5, <1>6
  <2> HIDE DEF w, m, n
  <2>2. DayLength * (p + 1) = DayLength * p + DayLength
    BY <1>1, <1>3
  <2>3. t + DayLength = DayLength * (p + 1) + w /\ p + 1 \in Int /\ t + DayLength \in Int
    BY <1>1, <1>3, <2>1, <2>2
  <2>4. p + 1 = (t + DayLength) \div DayLength
    BY <1>1, <2>1, <2>3, DivUnique
  <2> QED BY <2>4 DEF DayOf
<1> QED BY <1>2, <1>4, <1>7, <1>8, <1>9 DEF p

\* A moment less than a day ago, of the same hour of the day: of the same hour,
\* or of that hour of the day before.
LEMMA HourAgain ==
    ASSUME NEW t \in Nat, NEW u \in Nat, t <= u, u - t < DayLength
    PROVE  /\ HourNumber(t) <= HourNumber(u) /\ HourNumber(u) <= HourNumber(t) + HoursPerDay
           /\ tm_hour(t) = tm_hour(u) /\ HourNumber(t) # HourNumber(u) => DayOf(u) = DayOf(t) + 1
<1>1. MinutesPerHour \in Nat \ {0} /\ HoursPerDay \in Nat \ {0} /\ DayLength \in Nat
  BY CalendarAssumption DEF DayLength
<1>2. HourNumber(t) \in Nat /\ HourNumber(u) \in Nat
  BY HoursOfDay
<1>3. t + DayLength \in Nat /\ u <= t + DayLength
  BY <1>1
<1>4. HourNumber(t) <= HourNumber(u) /\ HourNumber(u) <= HourNumber(t + DayLength)
  BY <1>1, <1>3, DivMonotone DEF HourNumber
<1>5. HourNumber(t + DayLength) = HourNumber(t) + HoursPerDay
  BY HoursOfDay
<1>6. ASSUME tm_hour(t) = tm_hour(u), HourNumber(t) # HourNumber(u) PROVE DayOf(u) = DayOf(t) + 1
  <2>1. HourNumber(t) % HoursPerDay = HourNumber(u) % HoursPerDay
    BY <1>6 DEF tm_hour
  <2> DEFINE g == HourNumber(t)  h == HourNumber(u)
  <2>2. h <= g + 2 * HoursPerDay
    BY <1>1, <1>2, <1>4, <1>5
  <2>3. h = g + HoursPerDay
    <3>1. g % HoursPerDay = h % HoursPerDay /\ g \in Nat /\ h \in Nat /\ g <= h /\ g # h
      BY <1>2, <1>4, <1>6, <2>1
    <3>2. h <= g + HoursPerDay
      BY <1>4, <1>5
    <3> HIDE DEF g, h
    <3>3. h = g \/ h = g + HoursPerDay \/ h = g + 2 * HoursPerDay
      BY <1>1, <2>2, <3>1, TurnsApart
    <3> QED BY <1>1, <3>1, <3>2, <3>3
  <2>4. DayOf(u) = HourNumber(t + DayLength) \div HoursPerDay
    BY <1>5, <2>3, HoursOfDay
  <2>5. DayOf(t + DayLength) = HourNumber(t + DayLength) \div HoursPerDay
    BY <1>3, HoursOfDay
  <2> QED BY <2>4, <2>5, HoursOfDay
<1> QED BY <1>4, <1>5, <1>6

\* The day after another is not the same day of a month of two days or more.
LongMonths == \A n \in DOMAIN MonthLength : MonthLength[n] # 1

LEMMA NextDayDiffers ==
    ASSUME LongMonths, NEW d \in Covered, d + 1 \in Covered PROVE mday(d + 1) # mday(d)
<1> DEFINE m == MonthOf[d]  n == MonthOf[d + 1]
<1>1. InMonth(d, m) /\ InMonth(d + 1, n) /\ d \in Nat /\ Last \in Nat
  BY MonthOfDay, FirstDays DEF Covered
<1>2. m <= n
  <2>1. d <= d + 1
    BY <1>1
  <2> HIDE DEF m, n
  <2> QED BY <1>1, <2>1, MonthsInOrder
<1> HIDE DEF m, n
<1>3. mday(d) = d - FirstDay[m] + 1 /\ mday(d + 1) = (d + 1) - FirstDay[n] + 1
  BY Zenon DEF mday, m, n
<1>4. m \in 0..(Last - 1) /\ n \in 0..(Last - 1) /\ m \in 0..Last /\ n \in 0..Last /\ m + 1 \in 1..Last /\ m + 1 \in 0..Last
  BY <1>1 DEF InMonth
<1>5. FirstDay[m] \in Nat /\ FirstDay[n] \in Nat /\ FirstDay[m + 1] \in Nat
  BY <1>4, FirstDays
<1>6. CASE m = n
  BY <1>1, <1>3, <1>5, <1>6
<1>7. CASE m # n
  <2>1. FirstDay[m + 1] <= FirstDay[n]
    <3>1. m + 1 = n \/ m + 1 < n
      BY <1>2, <1>4, <1>7
    <3> QED BY <1>4, <1>5, <3>1, Increasing
  <2>2. FirstDay[n] = d + 1 /\ FirstDay[m + 1] = d + 1
    BY <1>1, <1>5, <2>1 DEF InMonth
  <2>3. FirstDay[m + 1] = FirstDay[m] + MonthLength[m + 1] /\ MonthLength[m + 1] \in Nat
        /\ MonthLength[m + 1] # 1
    <3>1. MonthLength[m + 1] # 1
      BY <1>4, MonthsAssumption DEF LongMonths, Last
    <3>2. m + 1 - 1 = m
      BY <1>4
    <3> QED BY <1>4, <3>1, <3>2, FirstDays
  <2> QED BY <1>1, <1>3, <1>5, <2>2, <2>3
<1> QED BY <1>6, <1>7

\* Entries have the date of an hour of theirs, not after t and less than a day before it.
Dated(hours, t) ==
    \A i \in HourIndex : hours[i].date # 0 =>
        /\ tm_hour(hours[i].date) = i
        /\ hours[i].date <= t /\ t - hours[i].date < DayLength

\* An entry that is dated has the traffic of the hour of that date; the others have none.
Held24(hours, hlog) ==
    \A i \in HourIndex :
        hours[i].sum = IF hours[i].date = 0 THEN Zero ELSE hlog[HourNumber(hours[i].date)]

\* The hour of the last pass, last, has its entry, and there is no later one.
LatestHour(hours, hlog, last) ==
    /\ hours[tm_hour(last)].date = last
    /\ hlog \in [0..HourNumber(MaxNow) -> [Dir -> Nat]]
    /\ \A n \in 0..HourNumber(MaxNow) : n > HourNumber(last) => hlog[n] = Zero

HourInv ==
    /\ TypeOK /\ lastpass <= now /\ lastpass # 0
    /\ Dated(data.hour, lastpass)
    /\ LatestHour(data.hour, hourlog, lastpass)
    /\ saves = 0 => data.lastupdated = lastpass /\ Held24(data.hour, hourlog)

\* Only the change of the hours touches them.
LEMMA HourSteps ==
    ASSUME NEW d \in Records, NEW a
    PROVE  /\ parseifinfo(d, a).hour = UpdateHours(AddCurrent(d, a), a).hour
           /\ parseifinfo(d, a).lastupdated = d.lastupdated
           /\ AddCurrent(d, a).hour = d.hour /\ AddCurrent(d, a).lastupdated = d.lastupdated
           /\ Written(d).hour = d.hour /\ Written(d).lastupdated = now
<1> DEFINE HasHours(r) == "hour" \in DOMAIN r /\ "lastupdated" \in DOMAIN r
<1>1. HasHours(d)
  BY DEF Records
<1>2. HasHours(AddCurrent(d, a)) /\ AddCurrent(d, a).hour = d.hour /\ AddCurrent(d, a).lastupdated = d.lastupdated
  BY <1>1 DEF AddCurrent
<1>3. Written(d).hour = d.hour /\ Written(d).lastupdated = now
  BY <1>1 DEF Written
<1> DEFINE r == AddCurrent(d, a)  e == UpdateHours(r, a)
<1>4. HasHours(e) /\ e.lastupdated = d.lastupdated
  <2> HIDE DEF r
  <2>1. HasHours(cleanhours(r)) /\ cleanhours(r).lastupdated = r.lastupdated
    BY <1>2 DEF cleanhours, r
  <2> QED BY <1>2, <2>1 DEF UpdateHours, r
<1> HIDE DEF e
<1>5. HasHours(UpdateDays(e)) /\ UpdateDays(e).hour = e.hour /\ UpdateDays(e).lastupdated = e.lastupdated
  BY <1>4 DEF UpdateDays, rotatedays
<1> DEFINE f == UpdateDays(e)
<1> HIDE DEF f
<1>6. UpdateMonths(f).hour = f.hour /\ UpdateMonths(f).lastupdated = f.lastupdated
  BY <1>5 DEF UpdateMonths, rotatemonths, f
<1>7. parseifinfo(d, a) = UpdateMonths(f)
  BY DEF parseifinfo, e, f, r
<1> QED BY <1>2, <1>3, <1>4, <1>5, <1>6, <1>7 DEF e, f, r

\* A pass dates the hour it is, and forgets those of a day ago.
LEMMA DatesOk ==
    ASSUME NEW d \in Records, NEW a \in KiB, now \in Moments,
           \A i \in HourIndex : d.hour[i].date # 0 => tm_hour(d.hour[i].date) = i /\ d.hour[i].date <= now
    PROVE  /\ Dated(parseifinfo(d, a).hour, now)
           /\ parseifinfo(d, a).hour[tm_hour(now)].date = now
<1> DEFINE r == AddCurrent(d, a)  new == parseifinfo(d, a).hour
<1>1. r \in Records /\ r.hour = d.hour /\ new = UpdateHours(r, a).hour
  BY CurrentType, HourSteps
<1> HIDE DEF r, new
<1>2. \A i \in HourIndex :
         new[i].date = IF i = tm_hour(now) THEN now ELSE IF TooOld(d.hour[i]) THEN 0 ELSE d.hour[i].date
  BY <1>1, HoursType
<1>3. tm_hour(now) \in HourIndex /\ now \in Nat /\ DayLength \in Nat \ {0}
  BY HourType, CalendarAssumption DEF DayLength
<1>4. \A i \in HourIndex : d.hour[i].date \in Nat
  BY RecordsAre DEF HourEntries, Moments
<1>5. ASSUME NEW i \in HourIndex, new[i].date # 0
      PROVE  tm_hour(new[i].date) = i /\ new[i].date <= now /\ now - new[i].date < DayLength
  <2>1. CASE i = tm_hour(now)
    BY <1>2, <1>3, <1>5, <2>1
  <2>2. CASE i # tm_hour(now)
    <3>1. ~TooOld(d.hour[i]) /\ new[i].date = d.hour[i].date
      BY <1>2, <1>5, <2>2
    <3> QED BY <1>3, <1>4, <1>5, <3>1 DEF TooOld
  <2> QED BY <2>1, <2>2
<1> QED BY <1>2, <1>3, <1>5 DEF Dated, new

\* Going back by an hour, around the clock.
LEMMA TurnBack ==
    ASSUME NEW m \in Nat \ {0}, NEW a \in Nat \ {0}
    PROVE  /\ ((a % m) + m - 1) % m = (a - 1) % m
           /\ m # 1 => (a - 1) % m # a % m
<1>1. a % m \in 0..(m - 1) /\ a - 1 \in Nat /\ a \in Nat /\ m \in Nat
  BY DivModNat
<1>2. ((a % m) + (m - 1)) % m = (a + (m - 1)) % m /\ a + (m - 1) \in Nat
  <2>1. (a % m) + (m - 1) >= 0 /\ m - 1 \in Int
    BY <1>1
  <2> QED BY <1>1, <2>1, RemainderFirst
<1>3. (a + (m - 1)) % m = (a - 1) % m
  <2> DEFINE b == a - 1  q == b \div m  r == b % m
  <2>1. q \in Nat /\ r \in 0..(m - 1) /\ b = m * q + r
    BY <1>1, DivModNat
  <2> HIDE DEF q, r
  <2>2. m * (q + 1) = m * q + m /\ q + 1 \in Int
    BY <2>1
  <2>3. a + (m - 1) = m * (q + 1) + r /\ a + (m - 1) \in Int
    BY <1>1, <2>1, <2>2
  <2>4. r = (a + (m - 1)) % m
    BY <2>1, <2>2, <2>3, DivUnique
  <2> QED BY <2>4 DEF r
<1>4. ASSUME m # 1, (a - 1) % m = a % m PROVE FALSE
  <2>1. a - 1 <= a /\ a <= (a - 1) + 2 * m
    BY <1>1
  <2>2. a = a - 1 \/ a = (a - 1) + m \/ a = (a - 1) + 2 * m
    BY <1>1, <1>4, <2>1, TurnsApart
  <2> QED BY <1>1, <1>4, <2>2
<1>5. (a % m) + m - 1 = (a % m) + (m - 1)
  BY <1>1
<1> QED BY <1>2, <1>3, <1>4, <1>5

\* The hour of last and that of now.
LEMMA TwoHours ==
    ASSUME NEW last \in Nat, last < now, now \in Moments
    PROVE  /\ HourNumber(last) \in 0..HourNumber(MaxNow) /\ HourNumber(now) \in 0..HourNumber(MaxNow)
           /\ HourNumber(last) <= HourNumber(now)
           /\ HourNumber(last) = HourNumber(now) => now - last < MinutesPerHour /\ DayOf(last) = DayOf(now)
           /\ tm_min(now) = 0 =>
                 /\ HourNumber(last) = HourNumber(now) - 1 => now - last <= MinutesPerHour
                 /\ now - last <= MinutesPerHour => HourNumber(last) >= HourNumber(now) - 1
<1> DEFINE m == MinutesPerHour  l == HourNumber(last)  h == HourNumber(now)
<1>1. m \in Nat \ {0} /\ now \in Nat /\ last \in Moments
  BY CalendarAssumption DEF Moments
<1>2. l \in 0..HourNumber(MaxNow) /\ h \in 0..HourNumber(MaxNow) /\ l <= h
  <2>1. l \in 0..HourNumber(MaxNow) /\ h \in 0..HourNumber(MaxNow)
    BY <1>1, HourType
  <2>2. last \div m <= now \div m
    BY <1>1, DivMonotone
  <2> QED BY <2>1, <2>2 DEF HourNumber
<1>3. /\ last = m * l + tm_min(last) /\ now = m * h + tm_min(now)
      /\ tm_min(last) \in 0..(m - 1) /\ tm_min(now) \in 0..(m - 1) /\ l \in Nat /\ h \in Nat
      /\ (l = h => DayOf(last) = DayOf(now))
  BY <1>1, HoursOfDay
<1> HIDE DEF m, l, h
<1>4. m * l \in Nat /\ m * h \in Nat
  BY <1>1, <1>3
<1>5. l = h => now - last < m
  BY <1>1, <1>3, <1>4
<1>6. ASSUME tm_min(now) = 0, l = h - 1 PROVE now - last <= m
  <2>1. m * h = m * l + m
    BY <1>1, <1>3, <1>6
  <2> QED BY <1>1, <1>3, <1>4, <1>6, <2>1
<1>7. ASSUME tm_min(now) = 0, now - last <= m PROVE l >= h - 1
  <2>1. CASE l < h - 1
    <3>1. PICK t \in Nat : h = l + 2 + t
      <4>1. h - l - 2 \in Nat /\ h = l + 2 + (h - l - 2)
        BY <1>3, <2>1
      <4> QED BY <4>1
    <3>2. m * h = m * l + 2 * m + m * t /\ m * t \in Nat
      BY <1>1, <1>3, <3>1
    <3> QED BY <1>1, <1>3, <1>4, <1>7, <3>2
  <2> QED BY <1>3, <2>1
<1> QED BY <1>2, <1>3, <1>5, <1>6, <1>7 DEF m, l, h

\* The hour that traffic found now belongs to, if the last pass was at last.
OwnOf(last) ==
    IF tm_min(now) = 0 /\ HourNumber(last) = HourNumber(now) - 1
        THEN HourNumber(now) - 1 ELSE HourNumber(now)

\* It is the hour that the code credits.
LEMMA CreditedIs ==
    ASSUME HoursPerDay # 1, NEW d, NEW last \in Nat, d.lastupdated = last, last < now, now \in Moments
    PROVE  Credited(d) = OwnOf(last) % HoursPerDay
<1> DEFINE l == HourNumber(last)  h == HourNumber(now)
<1>1. HoursPerDay \in Nat \ {0} /\ l \in Nat /\ h \in Nat /\ l <= h /\ now \in Nat
  BY CalendarAssumption, TwoHours, HoursOfDay DEF Moments
<1>2. tm_hour(now) = h % HoursPerDay /\ tm_hour(last) = l % HoursPerDay
  BY DEF tm_hour
<1>3. CASE tm_min(now) = 0 /\ l = h - 1
  <2>1. now - last <= MinutesPerHour
    BY <1>3, TwoHours
  <2> HIDE DEF l, h
  <2>2. h \in Nat \ {0}
    BY <1>1, <1>3
  <2>3. tm_hour(last) # tm_hour(now) /\ (tm_hour(now) + HoursPerDay - 1) % HoursPerDay = (h - 1) % HoursPerDay
    <3>1. ((h % HoursPerDay) + HoursPerDay - 1) % HoursPerDay = (h - 1) % HoursPerDay
      BY <1>1, <2>2, TurnBack
    <3>2. (h - 1) % HoursPerDay # h % HoursPerDay
      BY <1>1, <2>2, TurnBack
    <3>3. tm_hour(last) = (h - 1) % HoursPerDay
      BY <1>2, <1>3
    <3> QED BY Zenon, <1>2, <3>1, <3>2, <3>3
  <2> QED BY <1>3, <2>1, <2>3 DEF Credited, OwnOf, l, h
<1>4. CASE ~(tm_min(now) = 0 /\ l = h - 1)
  <2>1. ~(tm_min(now) = 0 /\ tm_hour(last) # tm_hour(now) /\ now - last <= MinutesPerHour)
    <3> SUFFICES ASSUME tm_min(now) = 0, tm_hour(last) # tm_hour(now), now - last <= MinutesPerHour
                 PROVE  FALSE
      OBVIOUS
    <3>1. l >= h - 1
      BY TwoHours
    <3> HIDE DEF l, h
    <3>2. l # h
      BY <1>2
    <3> QED BY <1>1, <1>4, <3>1, <3>2
  <2>2. Credited(d) = tm_hour(now)
    BY <2>1 DEF Credited
  <2>3. OwnOf(last) = h
    BY <1>4 DEF OwnOf
  <2> QED BY <1>2, <2>2, <2>3
<1> QED BY <1>3, <1>4

\* What is counted now comes to the entry of its hour.
LEMMA SumsOk ==
    ASSUME LongMonths, HoursPerDay # 1, NEW d \in Records, NEW last \in Nat \ {0}, d.lastupdated = last,
           last < now, now \in Moments, NEW a \in KiB, NEW hlog,
           Dated(d.hour, last), LatestHour(d.hour, hlog, last), Held24(d.hour, hlog)
    PROVE  Held24(parseifinfo(d, a).hour, [hlog EXCEPT ![OwnOf(last)] = Plus(@, a)])
<1> DEFINE h == HourNumber(now)  l == HourNumber(last)  own == OwnOf(last)  i0 == tm_hour(now)
           r == AddCurrent(d, a)  new == parseifinfo(d, a).hour
           hlog2 == [hlog EXCEPT ![own] = Plus(@, a)]
           Sum0(i) == IF new[i].date = 0 THEN Zero ELSE hlog[HourNumber(new[i].date)]
<1>1. /\ HoursPerDay \in Nat \ {0, 1} /\ MinutesPerHour \in Nat \ {0} /\ now \in Nat /\ now # 0
      /\ l \in 0..HourNumber(MaxNow) /\ h \in 0..HourNumber(MaxNow) /\ l <= h /\ l \in Nat /\ h \in Nat
      /\ i0 \in HourIndex /\ last \in Moments /\ last \in Nat
  BY CalendarAssumption, TwoHours, HourType, HoursOfDay DEF Moments
<1>2. DayLength \in Nat /\ MinutesPerHour < DayLength
  <2>1. PICK n \in Nat : HoursPerDay = n + 2
    <3>1. HoursPerDay - 2 \in Nat /\ HoursPerDay = (HoursPerDay - 2) + 2
      BY <1>1
    <3> QED BY <3>1
  <2>2. HoursPerDay * MinutesPerHour = n * MinutesPerHour + 2 * MinutesPerHour /\ n * MinutesPerHour \in Nat
    BY <1>1, <2>1
  <2> QED BY <1>1, <2>2 DEF DayLength
<1>3. own \in 0..HourNumber(MaxNow) /\ Credited(r) = own % HoursPerDay
      /\ (own = h \/ (own = l /\ l = h - 1 /\ tm_min(now) = 0))
  <2>1. r.lastupdated = last
    BY HourSteps
  <2>2. Credited(r) = own % HoursPerDay
    <3> HIDE DEF r
    <3> QED BY <1>1, <2>1, CreditedIs
  <2>3. own = h \/ (own = l /\ l = h - 1 /\ tm_min(now) = 0)
    BY DEF OwnOf
  <2> HIDE DEF own, h, l, r
  <2> QED BY <1>1, <2>2, <2>3
<1>4. /\ r \in Records /\ r.hour = d.hour /\ new = UpdateHours(r, a).hour
  BY CurrentType, HourSteps
<1> HIDE DEF r, new
<1>5. \A i \in HourIndex :
         /\ new[i].date = IF i = i0 THEN now ELSE IF TooOld(d.hour[i]) THEN 0 ELSE d.hour[i].date
         /\ new[i].sum = IF i = own % HoursPerDay THEN Plus(CleanSum(r, i), a) ELSE CleanSum(r, i)
  BY <1>3, <1>4, HoursType
<1>6. /\ \A i \in HourIndex : d.hour[i].date \in Moments /\ d.hour[i].date \in Nat
      /\ \A t \in Moments : HourNumber(t) \in 0..HourNumber(MaxNow)
      /\ hlog \in [0..HourNumber(MaxNow) -> [Dir -> Nat]]
      /\ d.hour[tm_hour(last)].date = last /\ tm_hour(last) \in HourIndex
      /\ \A n \in 0..HourNumber(MaxNow) : n > l => hlog[n] = Zero
  BY <1>1, RecordsAre, HourType DEF HourEntries, LatestHour, Moments
\* No traffic is known of an hour that has begun since.
<1>7. ASSUME l = h PROVE CleanSum(r, i0) = hlog[h]
  <2>1. now - last < MinutesPerHour /\ DayOf(last) = DayOf(now) /\ tm_hour(last) = i0
    BY <1>7, TwoHours DEF tm_hour
  <2>2. d.hour[i0].date = last /\ ~TooOld(d.hour[i0])
    BY <1>1, <1>2, <1>6, <2>1 DEF TooOld
  <2>3. tm_mday(last) = tm_mday(now)
    BY <2>1 DEF tm_mday
  <2>4. CleanSum(r, i0) = d.hour[i0].sum
    BY <1>4, <2>2, <2>3 DEF CleanSum
  <2>5. d.hour[i0].sum = hlog[h]
    BY <1>1, <1>7, <2>2 DEF Held24
  <2> QED BY <2>4, <2>5
<1>8. ASSUME l # h PROVE CleanSum(r, i0) = hlog[h]
  <2>1. hlog[h] = Zero
    BY <1>1, <1>6, <1>8
  <2>2. CASE TooOld(d.hour[i0]) \/ tm_mday(d.hour[i0].date) # tm_mday(now) \/ d.hour[i0].date = 0
    <3>1. d.hour[i0].date = 0 => d.hour[i0].sum = Zero
      BY <1>1 DEF Held24
    <3> QED BY <1>4, <2>1, <2>2, <3>1 DEF CleanSum
  <2>3. CASE /\ ~TooOld(d.hour[i0]) /\ tm_mday(d.hour[i0].date) = tm_mday(now)
             /\ d.hour[i0].date # 0
    <3> DEFINE t == d.hour[i0].date
    <3>1. t \in Nat /\ t \in Moments /\ tm_hour(t) = i0 /\ t <= last
      BY <1>1, <1>6, <2>3 DEF Dated
    <3>2. t <= now /\ now - t < DayLength
      BY <1>1, <1>2, <2>3, <3>1 DEF TooOld
    <3>3. HourNumber(t) = h
      <4>1. CASE HourNumber(t) # h
        <5>1. DayOf(now) = DayOf(t) + 1
          <6> HIDE DEF t
          <6> QED BY <1>1, <3>1, <3>2, <4>1, HourAgain DEF h, i0
        <5>2. DayOf(t) \in Covered /\ DayOf(now) \in Covered
          BY <3>1, DayInDays, DaysCovered DEF Moments
        <5>3. mday(DayOf(t) + 1) # mday(DayOf(t))
          BY <5>1, <5>2, NextDayDiffers
        <5> QED BY <2>3, <5>1, <5>3 DEF tm_mday
      <4> QED BY <4>1
    <3>4. HourNumber(t) <= l
      <4>1. last - t < DayLength
        BY <1>1, <2>3 DEF Dated
      <4> HIDE DEF t
      <4> QED BY <1>1, <3>1, <4>1, HourAgain DEF l
    <3> QED BY <1>1, <1>8, <3>3, <3>4
  <2> QED BY <2>2, <2>3
<1>9. ASSUME NEW i \in HourIndex PROVE CleanSum(r, i) = Sum0(i)
  <2>1. CASE i = i0
    <3>1. CleanSum(r, i0) = hlog[h]
      BY <1>7, <1>8
    <3>2. new[i0].date = now
      BY <1>1, <1>5
    <3> QED BY <1>1, <2>1, <3>1, <3>2
  <2>2. CASE i # i0
    BY <1>4, <1>5, <2>2 DEF CleanSum, Held24
  <2> QED BY <2>1, <2>2
<1>10. Dated(new, now)
  <2>1. \A i \in HourIndex : d.hour[i].date # 0 => tm_hour(d.hour[i].date) = i /\ d.hour[i].date <= now
    BY <1>1, <1>6 DEF Dated
  <2> QED BY <2>1, DatesOk DEF new
<1>11. ASSUME NEW i \in HourIndex, i = own % HoursPerDay
       PROVE  new[i].date # 0 /\ HourNumber(new[i].date) = own
  <2>1. CASE own = h
    <3>1. i = i0
      BY <1>11, <2>1 DEF tm_hour
    <3> QED BY <1>1, <1>5, <2>1, <3>1
  <2>2. CASE own = l /\ l = h - 1 /\ tm_min(now) = 0
    <3>1. i = tm_hour(last)
      BY <1>11, <2>2 DEF tm_hour
    <3>2. i # i0
      <4>1. h \in Nat \ {0}
        <5> HIDE DEF h, l
        <5> QED BY <1>1, <2>2
      <4>2. (h - 1) % HoursPerDay # h % HoursPerDay
        <5> HIDE DEF h
        <5> QED BY <1>1, <4>1, TurnBack
      <4> QED BY <1>11, <2>2, <4>2 DEF tm_hour
    <3>3. ~TooOld(d.hour[i])
      <4>1. now - last <= MinutesPerHour
        BY <1>1, <2>2, TwoHours
      <4> QED BY <1>1, <1>2, <1>6, <3>1, <4>1 DEF TooOld
    <3> QED BY <1>1, <1>5, <1>6, <2>2, <3>1, <3>2, <3>3
  <2> QED BY <1>3, <2>1, <2>2
<1>12. ASSUME NEW i \in HourIndex, i # own % HoursPerDay, new[i].date # 0
       PROVE  HourNumber(new[i].date) # own
  BY <1>10, <1>12 DEF Dated, tm_hour
<1>13. hlog2[own] = Plus(hlog[own], a) /\ \A n \in 0..HourNumber(MaxNow) : n # own => hlog2[n] = hlog[n]
  BY <1>3, <1>6
<1>14. \A i \in HourIndex : new[i].date # 0 => HourNumber(new[i].date) \in 0..HourNumber(MaxNow)
  BY <1>1, <1>5, <1>6
<1> HIDE DEF own, hlog2, h, l, i0
<1>15. ASSUME NEW i \in HourIndex
       PROVE  new[i].sum = IF new[i].date = 0 THEN Zero ELSE hlog2[HourNumber(new[i].date)]
  <2>1. CASE i = own % HoursPerDay
    <3>1. new[i].date # 0 /\ HourNumber(new[i].date) = own
      BY <1>11, <2>1
    <3>2. new[i].sum = Plus(hlog[own], a)
      BY <1>5, <1>9, <2>1, <3>1
    <3> QED BY <1>13, <3>1, <3>2
  <2>2. CASE i # own % HoursPerDay
    <3>1. new[i].sum = IF new[i].date = 0 THEN Zero ELSE hlog[HourNumber(new[i].date)]
      BY <1>5, <1>9, <2>2
    <3>2. new[i].date # 0 => hlog2[HourNumber(new[i].date)] = hlog[HourNumber(new[i].date)]
      BY <1>12, <1>13, <1>14, <2>2
    <3> QED BY <3>1, <3>2
  <2> QED BY <2>1, <2>2
<1> QED BY <1>15 DEF Held24, hlog2, own, new

LEMMA HourInit == 0 \notin Starts /\ Init => HourInv
<1> SUFFICES ASSUME 0 \notin Starts, Init PROVE HourInv
  OBVIOUS
<1>1. /\ now \in Starts /\ now \in Moments /\ now \in Nat /\ now # 0 /\ lastpass = now
      /\ data = parseifinfo(initdb, Zero) /\ saves = 0
      /\ hourlog = [h \in 0..HourNumber(MaxNow) |-> Zero]
  BY CalendarAssumption DEF Init, Moments
<1>2. initdb \in Records /\ initdb.lastupdated = now
      /\ \A i \in HourIndex : initdb.hour[i].date = 0 /\ initdb.hour[i].sum = Zero
  <2>1. initdb \in Records
    BY <1>1, FirstType
  <2>2. initdb.hour = [i \in HourIndex |-> [date |-> 0, sum |-> Zero]] /\ initdb.lastupdated = now
    BY DEF initdb, HourIndex
  <2> QED BY <2>1, <2>2
<1>3. Dated(data.hour, now) /\ data.hour[tm_hour(now)].date = now
  BY <1>1, <1>2, DatesOk, Empty
<1>4. TypeOK /\ hourlog \in [0..HourNumber(MaxNow) -> [Dir -> Nat]] /\ lastpass <= now
  BY <1>1, TypeInit DEF TypeOK
<1>5. data.lastupdated = now
  BY <1>1, <1>2, HourSteps
<1>6. ASSUME NEW i \in HourIndex PROVE data.hour[i].sum = Zero
  <2> DEFINE r == AddCurrent(initdb, Zero)
  <2>1. r \in Records /\ r.hour = initdb.hour /\ data.hour = UpdateHours(r, Zero).hour
    BY <1>1, <1>2, CurrentType, HourSteps, Empty
  <2> HIDE DEF r
  <2>2. CleanSum(r, i) = Zero
    BY <1>2, <2>1 DEF CleanSum
  <2>3. data.hour[i].sum = IF i = Credited(r) THEN Plus(Zero, Zero) ELSE Zero
    BY <1>1, <2>1, <2>2, HoursType, Empty
  <2> QED BY <2>3, Empty
<1>7. \A i \in HourIndex : data.hour[i].date \in Moments
  <2>1. data \in Records
    BY <1>4 DEF TypeOK
  <2> QED BY <2>1, RecordsAre DEF HourEntries
<1>8. Held24(data.hour, hourlog)
  <2>1. \A n \in 0..HourNumber(MaxNow) : hourlog[n] = Zero
    BY <1>1
  <2> QED BY <1>6, <1>7, <2>1, HourType DEF Held24
<1>9. LatestHour(data.hour, hourlog, now)
  BY <1>1, <1>3, <1>4 DEF LatestHour
<1> QED BY <1>1, <1>3, <1>4, <1>5, <1>8, <1>9 DEF HourInv

LEMMA HourNext ==
    ASSUME LongMonths, HoursPerDay # 1 PROVE HourInv /\ [Next]_vars => HourInv'
<1> SUFFICES ASSUME HourInv, [Next]_vars PROVE HourInv'
  OBVIOUS
<1>0. /\ TypeOK' /\ data \in Records /\ now \in Moments /\ now \in Nat /\ lastpass \in Nat
      /\ saves \in Nat /\ lastpass \in Moments
  BY TypeNext, CalendarAssumption DEF HourInv, TypeOK, Moments
<1>1. CASE Tick
  <2>1. UNCHANGED <<data, lastpass, hourlog, saves>> /\ now' > now /\ now' \in Nat
    BY <1>1, CalendarAssumption DEF Tick
  <2>2. lastpass' <= now'
    BY <1>0, <2>1 DEF HourInv
  <2> QED BY <1>0, <2>1, <2>2 DEF HourInv
<1>2. CASE Pass
  <2>1. PICK a \in Amounts \cup {Zero} :
           /\ now > lastpass /\ data' = Written(parseifinfo(data, a)) /\ lastpass' = now
           /\ hourlog' = [hourlog EXCEPT ![OwnHour] = Plus(@, a)] /\ UNCHANGED <<now, saves>>
    BY <1>2 DEF Pass
  <2>2. a \in KiB
    BY CalendarAssumption, Empty DEF KiB
  <2> DEFINE e == parseifinfo(data, a)
  <2>3. e \in Records
    BY <1>0, <2>2, PassType
  <2> HIDE DEF e
  <2>4. data'.hour = e.hour /\ data'.lastupdated = now
    BY <2>1, <2>3, HourSteps DEF e
  <2>5. Dated(e.hour, now) /\ e.hour[tm_hour(now)].date = now
    <3>1. ASSUME NEW i \in HourIndex, data.hour[i].date # 0
          PROVE  tm_hour(data.hour[i].date) = i /\ data.hour[i].date <= now
      <4>1. data.hour[i].date \in Nat
        BY <1>0, RecordsAre DEF HourEntries, Moments
      <4> QED BY <1>0, <2>1, <3>1, <4>1 DEF HourInv, Dated
    <3> QED BY <1>0, <2>2, <3>1, DatesOk DEF e
  <2>6. LatestHour(e.hour, hourlog', now)
    <3>1. hourlog' \in [0..HourNumber(MaxNow) -> [Dir -> Nat]]
      BY <1>0 DEF TypeOK
    <3>2. /\ HourNumber(lastpass) <= HourNumber(now) /\ HourNumber(now) \in Nat
          /\ HourNumber(lastpass) \in Nat
      BY <1>0, <2>1, TwoHours, HoursOfDay
    <3>3. OwnHour = HourNumber(now) \/ OwnHour = HourNumber(now) - 1
      BY DEF OwnHour
    <3>4. ASSUME NEW n \in 0..HourNumber(MaxNow), n > HourNumber(now) PROVE hourlog'[n] = Zero
      <4>1. n > HourNumber(lastpass) /\ n # OwnHour
        BY <3>2, <3>3, <3>4
      <4>2. hourlog[n] = Zero /\ DOMAIN hourlog = 0..HourNumber(MaxNow)
        BY <4>1 DEF HourInv, LatestHour
      <4> QED BY <2>1, <4>1, <4>2
    <3> QED BY <2>5, <3>1, <3>4 DEF LatestHour
  <2>7. ASSUME saves' = 0 PROVE Held24(e.hour, hourlog')
    <3>1. data.lastupdated = lastpass /\ Held24(data.hour, hourlog)
      BY <2>1, <2>7 DEF HourInv
    <3>2. OwnHour = OwnOf(lastpass)
      BY <3>1 DEF OwnHour, OwnOf
    <3>3. lastpass \in Nat \ {0} /\ lastpass < now
      BY <1>0, <2>1 DEF HourInv
    <3>4. Held24(e.hour, [hourlog EXCEPT ![OwnOf(lastpass)] = Plus(@, a)])
      BY <1>0, <2>2, <3>1, <3>3, SumsOk DEF e, HourInv
    <3> QED BY <2>1, <3>2, <3>4
  <2>8. now # 0 /\ now <= now
    BY <1>0, <2>1
  <2> QED BY <1>0, <2>1, <2>4, <2>5, <2>6, <2>7, <2>8 DEF HourInv
<1>3. CASE Touch
  <2>1. data' = Written(data) /\ saves' = saves + 1 /\ UNCHANGED <<now, lastpass, hourlog>>
    BY <1>3 DEF Touch
  <2>2. data'.hour = data.hour /\ saves' # 0
    BY <1>0, <2>1, HourSteps
  <2> QED BY <1>0, <2>1, <2>2 DEF HourInv
<1>4. CASE ClearTop
  <2> DEFINE d == [data EXCEPT !.top10 = [i \in DOMAIN @ |->
                                            [@[i] EXCEPT !.sum = ZeroSum, !.used = FALSE]]]
  <2>1. data' = Written(d) /\ saves' = saves + 1 /\ UNCHANGED <<now, lastpass, hourlog>>
    BY <1>4 DEF ClearTop
  <2>2. "hour" \in DOMAIN d /\ d.hour = data.hour
    <3>1. "hour" \in DOMAIN data
      BY <1>0 DEF Records
    <3> QED BY <3>1
  <2> HIDE DEF d
  <2>3. data'.hour = data.hour
    BY <2>1, <2>2 DEF Written
  <2>4. saves' # 0
    BY <1>0, <2>1
  <2> QED BY <1>0, <2>1, <2>3, <2>4 DEF HourInv
<1>5. CASE Retire \/ UNCHANGED vars
  BY <1>0, <1>5 DEF Retire, vars, HourInv
<1> QED BY <1>1, <1>2, <1>3, <1>4, <1>5 DEF Next

\* The hour of the last pass is the one shown last, and the entry shown k
\* places before it is of k hours before it, if it is dated.
LEMMA ShownInOrder ==
    ASSUME NEW d \in Records, NEW last \in Moments, last # 0,
           Dated(d.hour, last), d.hour[tm_hour(last)].date = last
    PROVE  \A k \in 0..(HoursPerDay - 1) :
              /\ ShownHour(d, k) \in HourIndex
              /\ d.hour[ShownHour(d, k)].date # 0 =>
                    HourNumber(d.hour[ShownHour(d, k)].date) = HourNumber(last) - k
<1> DEFINE i0 == tm_hour(last)
           latest == {i \in DOMAIN d.hour : \A j \in DOMAIN d.hour : d.hour[j].date <= d.hour[i].date}
<1>1. /\ HoursPerDay \in Nat \ {0} /\ i0 \in HourIndex /\ last \in Nat /\ HourNumber(last) \in Nat
      /\ DOMAIN d.hour = HourIndex
  BY CalendarAssumption, HourType, HoursOfDay, RecordsAre DEF Moments
<1>2. \A i \in HourIndex : d.hour[i].date \in Nat /\ d.hour[i].date <= last
  <2>1. \A i \in HourIndex : d.hour[i].date \in Nat
    BY RecordsAre DEF HourEntries, Moments
  <2> QED BY <1>1, <2>1 DEF Dated
<1>3. latest = {i0}
  <2>1. i0 \in latest
    BY <1>1, <1>2
  <2>2. ASSUME NEW i \in latest PROVE i = i0
    <3>1. i \in HourIndex /\ d.hour[i].date = last
      BY <1>1, <1>2, <2>2
    <3> QED BY <3>1 DEF Dated
  <2> QED BY <2>1, <2>2
<1>4. LastHour(d) = i0
  <2>1. LastHour(d) = Max(latest)
    BY DEF LastHour
  <2> HIDE DEF latest
  <2>2. Max({i0}) = i0
    <3>1. i0 \in Nat
      BY <1>1 DEF HourIndex
    <3> HIDE DEF i0
    <3> QED BY <3>1 DEF Max
  <2> QED BY <1>3, <2>1, <2>2
<1> SUFFICES ASSUME NEW k \in 0..(HoursPerDay - 1)
             PROVE  /\ ShownHour(d, k) \in HourIndex
                    /\ d.hour[ShownHour(d, k)].date # 0 =>
                          HourNumber(d.hour[ShownHour(d, k)].date) = HourNumber(last) - k
  OBVIOUS
<1> DEFINE n == HoursPerDay  Q == HourNumber(last)  i == ShownHour(d, k)  b == n - k
<1>5. b \in 1..n /\ b \in Int /\ k \in Nat
  BY <1>1
<1>6. i = ((Q % n) + b) % n
  <2>1. i = (i0 - k + n) % n
    BY <1>4 DEF ShownHour
  <2>2. i0 - k + n = i0 + b
    BY <1>1, <1>5 DEF HourIndex
  <2> HIDE DEF i, b
  <2> QED BY <2>1, <2>2 DEF tm_hour
<1> HIDE DEF b, i, Q
<1>7. Q \in Nat /\ n \in Nat \ {0} /\ Q % n \in 0..(n - 1)
  BY <1>1, DivModNat DEF Q
<1>8. Q + b \in Nat /\ i = (Q + b) % n
  <2>1. (Q % n) + b >= 0
    BY <1>5, <1>7
  <2> QED BY <1>5, <1>6, <1>7, <2>1, RemainderFirst
<1>9. i \in HourIndex
  <2>1. (Q + b) % n \in 0..(n - 1)
    BY <1>7, <1>8, DivModNat
  <2> QED BY <1>8, <2>1 DEF HourIndex
<1>10. ASSUME d.hour[i].date # 0 PROVE HourNumber(d.hour[i].date) = Q - k
  <2> DEFINE t == d.hour[i].date  q == HourNumber(t)
  <2>1. t \in Nat /\ tm_hour(t) = i /\ t <= last /\ last - t < DayLength
    BY <1>2, <1>9, <1>10 DEF Dated
  <2>2. q \in Nat /\ q <= Q /\ Q <= q + n
    <3> HIDE DEF t
    <3> QED BY <1>1, <2>1, HourAgain, HoursOfDay DEF Q
  <2>3. q % n = (Q + b) % n
    BY <1>8, <2>1 DEF tm_hour
  <2>4. Q = q + n => k # 0
    <3>1. ASSUME Q = q + n, k = 0 PROVE FALSE
      <4>1. i = i0
        <5>1. b = n
          BY <1>7, <3>1 DEF b
        <5>2. ((Q % n) + n) % n = Q % n
          <6> DEFINE s == Q % n
          <6>1. s \in 0..(n - 1) /\ s + n \in Int /\ s + n = n * 1 + s
            BY <1>7
          <6> HIDE DEF s
          <6>2. s = (s + n) % n
            BY <1>7, <6>1, DivUnique
          <6> QED BY <6>2 DEF s
        <5> QED BY <1>6, <5>1, <5>2 DEF tm_hour, Q
      <4>2. t = last
        BY <4>1
      <4> QED BY <1>7, <3>1, <4>2 DEF Q
    <3> QED BY <3>1
  <2> HIDE DEF q
  <2>5. Q + b = q \/ Q + b = q + n \/ Q + b = q + 2 * n
    <3>1. q <= Q + b /\ Q + b <= q + 2 * n
      BY <1>5, <1>7, <2>2
    <3> QED BY <1>7, <1>8, <2>2, <2>3, <3>1, TurnsApart
  <2>6. b = n - k
    BY DEF b
  <2>7. q = Q - k
    BY <1>5, <1>7, <2>2, <2>4, <2>5, <2>6
  <2> QED BY <2>7 DEF q
<1> QED BY <1>9, <1>10 DEF i, Q

\* Every hour that is dated has the traffic of that hour, and its place, if no
\* save without an update came between; and hours are shown in the order of
\* time.  So it is for any lengths of hours and days, if a day has more than one
\* hour and a month more than one day (hours are told by the day of the month
\* alone); 0, the date of an entry that is not used, is not the time now.
THEOREM HoursExactAlways ==
    ASSUME LongMonths, HoursPerDay # 1, 0 \notin Starts PROVE Spec => []HoursExact
<1>1. HourInv => HoursExact
  <2> SUFFICES ASSUME HourInv PROVE HoursExact
    OBVIOUS
  <2>1. /\ data \in Records /\ lastpass \in Moments /\ lastpass # 0
        /\ Dated(data.hour, lastpass) /\ data.hour[tm_hour(lastpass)].date = lastpass
        /\ DOMAIN data.hour = HourIndex
    BY RecordsAre DEF HourInv, TypeOK, LatestHour, Moments
  <2>2. ASSUME saves = 0, NEW i \in HourIndex
        PROVE  IF data.hour[i].date = 0 THEN data.hour[i].sum = Zero
               ELSE /\ tm_hour(data.hour[i].date) = i
                    /\ data.hour[i].sum = hourlog[HourNumber(data.hour[i].date)]
    BY <2>1, <2>2 DEF HourInv, Held24, Dated
  <2>3. ASSUME NEW k \in 0..(HoursPerDay - 1), NEW l \in 0..(HoursPerDay - 1), k < l,
               data.hour[ShownHour(data, k)].date # 0, data.hour[ShownHour(data, l)].date # 0
        PROVE  HourNumber(data.hour[ShownHour(data, k)].date)
                 > HourNumber(data.hour[ShownHour(data, l)].date)
    <3>1. /\ HourNumber(data.hour[ShownHour(data, k)].date) = HourNumber(lastpass) - k
          /\ HourNumber(data.hour[ShownHour(data, l)].date) = HourNumber(lastpass) - l
      BY <2>1, <2>3, ShownInOrder
    <3>2. HourNumber(lastpass) \in Nat
      BY <2>1, HoursOfDay, CalendarAssumption DEF Moments
    <3> QED BY <2>3, <3>1, <3>2, CalendarAssumption
  <2> QED BY <2>1, <2>2, <2>3 DEF HoursExact
<1>2. Init => HourInv
  BY HourInit
<1>3. HourInv /\ [Next]_vars => HourInv'
  BY HourNext
<1> QED BY <1>1, <1>2, <1>3, PTL DEF Spec

-----------------------------------------------------------------------------
(***************************************************************************)
(* The weeks: sums over the days of a record.                              *)
(***************************************************************************)

\* Parts may be counted under other names.
LEMMA SumMoved ==
    ASSUME NEW S, IsFiniteSet(S), NEW v, \A x \in S : v[x] \in KiB,
           NEW U, IsFiniteSet(U),
           NEW f, \A x \in S : f[x] \in U, \A x, y \in S : f[x] = f[y] => x = y,
           NEW w, \A x \in S : w[f[x]] = v[x]
    PROVE  Sum(v, S) = Sum(w, {f[x] : x \in S})
<1> DEFINE Image(s) == {f[x] : x \in s}
           Bad == {s \in SUBSET S : Sum(v, s) # Sum(w, Image(s))}
<1>1. ASSUME NEW s \in SUBSET S
      PROVE  /\ IsFiniteSet(s) /\ IsFiniteSet(Image(s))
             /\ \A x \in s : v[x] \in KiB
             /\ \A y \in Image(s) : w[y] \in KiB
  <2>1. IsFiniteSet(s)
    BY FS_Subset
  <2>2. IsFiniteSet(Image(s))
    <3>1. Image(s) \in SUBSET U
      OBVIOUS
    <3> QED BY <3>1, FS_Subset
  <2>3. \A y \in Image(s) : w[y] \in KiB
    OBVIOUS
  <2> QED BY <2>1, <2>2, <2>3
<1>2. ASSUME NEW s \in Bad, \A x \in s : s \ {x} \notin Bad PROVE FALSE
  <2>1. s \in SUBSET S
    OBVIOUS
  <2>2. CASE s = {}
    <3>1. Image(s) = {}
      BY <2>2
    <3>2. Sum(v, s) = Zero /\ Sum(w, Image(s)) = Zero
      BY <1>1, <2>1, <2>2, <3>1, SumFacts
    <3> QED BY <1>2, <3>2
  <2>3. CASE s # {}
    <3>1. PICK x \in s : TRUE
      BY <2>3
    <3>2. Image(s) \ {f[x]} = Image(s \ {x}) /\ f[x] \in Image(s) /\ s \ {x} \in SUBSET S
      BY <2>1
    <3>3. Sum(v, s \ {x}) = Sum(w, Image(s \ {x}))
      BY <1>2, <3>2
    <3> HIDE DEF Image
    <3>4. Sum(v, s) = Plus(v[x], Sum(v, s \ {x}))
      BY <1>1, <2>1, SumFacts
    <3>5. /\ \A y \in Image(s) : w[y] \in KiB
          /\ IsFiniteSet(Image(s))
      BY <1>1, <2>1, <3>1
    <3>6. Sum(w, Image(s)) = Plus(w[f[x]], Sum(w, Image(s) \ {f[x]}))
      BY <3>2, <3>5, SumFacts
    <3> QED BY <1>2, <2>1, <3>2, <3>3, <3>4, <3>6
  <2> QED BY <2>2, <2>3
<1>3. Bad = {}
  <2>1. Bad \in SUBSET (SUBSET S)
    OBVIOUS
  <2> HIDE DEF Bad
  <2> QED BY <1>2, <2>1, SmallSets
<1>4. S \in SUBSET S /\ S \notin Bad
  BY <1>3
<1> QED BY <1>4

\* Parts that are nothing need not be counted.
LEMMA SumIgnores ==
    ASSUME NEW S, IsFiniteSet(S), NEW v, \A x \in S : v[x] \in KiB,
           NEW T \in SUBSET S, \A x \in S \ T : v[x] = Zero
    PROVE  Sum(v, S) = Sum(v, T)
<1> DEFINE R == S \ T
           Bad == {r \in SUBSET R : Sum(v, T \cup r) # Sum(v, T)}
<1>1. ASSUME NEW s \in SUBSET S PROVE IsFiniteSet(s) /\ Sum(v, s) \in KiB
  <2>1. IsFiniteSet(s)
    BY FS_Subset
  <2> QED BY <2>1, SumFacts
<1>2. ASSUME NEW r \in Bad, \A x \in r : r \ {x} \notin Bad PROVE FALSE
  <2>1. PICK x \in r : TRUE
    <3>1. T \cup {} = T
      OBVIOUS
    <3> QED BY <1>2, <3>1
  <2>2. Sum(v, T \cup (r \ {x})) = Sum(v, T) /\ v[x] = Zero
    BY <1>2
  <2>3. (T \cup r) \ {x} = T \cup (r \ {x}) /\ T \cup r \in SUBSET S /\ x \in T \cup r
    BY <2>1
  <2>4. Sum(v, T \cup r) = Plus(v[x], Sum(v, (T \cup r) \ {x}))
    BY <1>1, <2>3, SumFacts
  <2>5. Sum(v, T) \in KiB
    BY <1>1
  <2> QED BY <1>2, <2>2, <2>3, <2>4, <2>5, Empty
<1>3. Bad = {}
  <2>1. Bad \in SUBSET (SUBSET R) /\ IsFiniteSet(R)
    BY FS_Subset
  <2> HIDE DEF Bad
  <2> QED BY <1>2, <2>1, SmallSets
<1>4. R \in SUBSET R /\ R \notin Bad /\ T \cup R = S
  BY <1>3
<1> QED BY <1>4

\* What the entries of days hold.
Holds(days) == [i \in Index |-> InKiB(days[i].sum)]

\* DaysSum adds up what the used ones among the entries hold.
LEMMA DaysSumIs ==
    ASSUME NEW d, d.day \in [Index -> DayEntries], NEW entries \in SUBSET Index
    PROVE  InKiB(DaysSum(d, entries)) = Sum(Holds(d.day), {i \in entries : d.day[i].used})
<1> DEFINE days == d.day  v == Holds(days)  S == {i \in entries : days[i].used}
           Next1(f, s) == IF s = {} THEN ZeroSum
                          ELSE Add(f[s \ {Pick(s)}], InKiB(days[Pick(s)].sum))
           iter == CHOOSE f : f = [s \in SUBSET S |-> Next1(f, s)]
           pick == [s \in SUBSET S |-> Pick(s)]
           take == [p \in S \X DaySums |-> Add(p[2], InKiB(days[p[1]].sum))]
<1>1. DaysSum(d, entries) = iter[S]
  BY DEF DaysSum, FoldFunctionOnSet, MapThenFoldSet, Pick
<1>2. S \in SUBSET Index /\ IsFiniteSet(S)
  <2>1. IsFiniteSet(Index)
    BY FS_Interval, CalendarAssumption DEF Index
  <2> QED BY <2>1, FS_Subset
<1>3. \A x \in S : days[x].sum \in DaySums /\ InKiB(days[x].sum) \in KiB /\ v[x] = InKiB(days[x].sum)
  <2>1. \A x \in S : x \in Index /\ days[x].sum \in DaySums
    BY <1>2 DEF DayEntries
  <2> QED BY <2>1, InKiBType DEF Holds
<1> HIDE DEF S, v
<1>4. Picks(pick, S)
  BY Picked DEF Picks
<1>5. take \in [S \X DaySums -> DaySums]
  <2>1. ASSUME NEW p \in S \X DaySums PROVE Add(p[2], InKiB(days[p[1]].sum)) \in DaySums
    <3>1. p[1] \in S /\ p[2] \in DaySums
      OBVIOUS
    <3> QED BY <1>3, <3>1, AddKiB
  <2> QED BY <2>1
<1>6. PICK g \in [SUBSET S -> DaySums] : Takes(g, take, ZeroSum, pick, S)
  <2> HIDE DEF take, pick
  <2> QED BY <1>2, <1>4, <1>5, TakingExists, Empty
<1>7. \A s \in SUBSET S : s # {} => Pick(s) \in S /\ Pick(s) \in s /\ s \ {Pick(s)} \in SUBSET S
  BY Picked
<1>8. ASSUME NEW s \in SUBSET S PROVE g[s] = Next1(g, s)
  <2>1. CASE s = {}
    BY <1>6, <2>1 DEF Takes
  <2>2. CASE s # {}
    <3>1. g[s] = take[<<Pick(s), g[s \ {Pick(s)}]>>]
      BY <1>6, <2>2 DEF Takes
    <3>2. Pick(s) \in S /\ g[s \ {Pick(s)}] \in DaySums
      BY <1>6, <1>7, <2>2
    <3> QED BY <2>2, <3>1, <3>2
  <2> QED BY <2>1, <2>2
<1>9. iter = [s \in SUBSET S |-> Next1(iter, s)]
  <2>1. g = [s \in SUBSET S |-> Next1(g, s)]
    <3>1. g = [s \in SUBSET S |-> g[s]]
      BY <1>6
    <3> QED BY <1>8, <3>1
  <2> QED BY <2>1
<1> HIDE DEF iter
<1>10. PICK h \in [SUBSET S -> KiB] : IsFold(h, PlusKiB, Zero, v, S) /\ Sum(v, S) = h[S]
  <2>1. \A x \in S : v[x] \in KiB
    BY <1>3
  <2> QED BY <1>2, <2>1, SumIsFold
<1> DEFINE Bad == {s \in SUBSET S : ~(iter[s] \in DaySums /\ InKiB(iter[s]) = h[s])}
<1>11. ASSUME NEW s \in Bad, \A x \in s : s \ {x} \notin Bad PROVE FALSE
  <2>1. CASE s = {}
    BY <1>9, <1>10, <1>11, <2>1, Empty DEF IsFold
  <2>2. CASE s # {}
    <3> DEFINE x == Pick(s)  r == s \ {Pick(s)}
    <3>1. x \in S /\ x \in s /\ r \in SUBSET S
      BY <1>7, <2>2
    <3>2. iter[r] \in DaySums /\ InKiB(iter[r]) = h[r]
      BY <1>11, <3>1
    <3>3. iter[s] = Add(iter[r], InKiB(days[x].sum))
      BY <1>9, <2>2
    <3>4. h[s] = PlusKiB[<<v[x], h[r]>>]
      BY <1>10, <2>2 DEF IsFold
    <3> HIDE DEF x, r
    <3>5. iter[s] \in DaySums /\ InKiB(iter[s]) = Plus(h[r], v[x])
      BY <1>3, <3>1, <3>2, <3>3, AddKiB
    <3>6. h[s] = Plus(v[x], h[r]) /\ v[x] \in KiB /\ h[r] \in KiB
      BY <1>3, <1>10, <3>1, <3>4, PlusType
    <3>7. Plus(h[r], v[x]) = Plus(v[x], h[r])
      BY <3>6 DEF Plus, KiB
    <3> QED BY <1>11, <3>5, <3>6, <3>7
  <2> QED BY <2>1, <2>2
<1>12. Bad = {}
  <2>1. Bad \in SUBSET (SUBSET S)
    OBVIOUS
  <2> HIDE DEF Bad
  <2> QED BY <1>2, <1>11, <2>1, SmallSets
<1>13. S \in SUBSET S /\ S \notin Bad
  BY <1>12
<1> QED BY <1>1, <1>10, <1>13 DEF S, v

\* The days that a record still has, if it has the array days.
Kept(days) ==
    {d \in Days : \/ {i \in Index : days[i].used} # Index
                  \/ d >= DayOf(days[NDays - 1].date)}

\* For any days, the used entries of those hold what was counted on those that
\* the record still has.
LEMMA DaysOfRecord ==
    ASSUME NEW days, NEW lg, NEW last, DayOk(days, lg, last), NEW some \in SUBSET Days,
           NEW entries,
           entries = {i \in Index : days[i].used /\ DayOf(days[i].date) \in some}
    PROVE  Sum(Holds(days), entries) = Sum(lg, some \cap Kept(days))
<1> DEFINE f == [i \in Index |-> DayOf(days[i].date)]
           image == {f[i] : i \in entries}
           kept == some \cap Kept(days)
           v == Holds(days)
<1>1. /\ NDays - 1 \in Index /\ Index \subseteq Int /\ DayOf(MaxNow) \in Nat
      /\ \A i \in Index : i = NDays - 1 \/ i < NDays - 1
  BY CalendarAssumption, DayOfType DEF Index
<1>2. days \in [Index -> DayEntries] /\ lg \in [Days -> KiB]
  BY DEF DayOk
<1>3. \A i \in Index : days[i].date \in Nat /\ f[i] \in Nat /\ v[i] \in KiB /\ f[i] = DayOf(days[i].date)
  <2>1. \A i \in Index : days[i].date \in Nat /\ days[i].sum \in DaySums
    BY <1>2 DEF DayEntries
  <2> QED BY <2>1, DayOfType, InKiBType DEF Holds
<1>4. \A i \in entries : i \in Index /\ days[i].used /\ f[i] \in some /\ f[i] \in Days /\ v[i] = lg[f[i]]
  BY <1>3 DEF DayOk, Holds
<1>5. \A i, j \in entries : f[i] = f[j] => i = j
  <2> SUFFICES ASSUME NEW i \in entries, NEW j \in entries, f[i] = f[j], i # j PROVE FALSE
    OBVIOUS
  <2>1. i < j \/ j < i
    BY <1>1, <1>4
  <2>2. f[i] > f[j] \/ f[j] > f[i]
    BY <1>3, <1>4, <2>1 DEF DayOk
  <2> QED BY <1>3, <1>4, <2>2
<1>6. IsFiniteSet(entries) /\ IsFiniteSet(kept)
  <2>1. IsFiniteSet(Index) /\ IsFiniteSet(Days)
    BY <1>1, FS_Interval, CalendarAssumption DEF Index, Days
  <2> QED BY <1>4, <2>1, FS_Subset
<1>7. image \subseteq kept
  <2> SUFFICES ASSUME NEW i \in entries PROVE f[i] \in kept
    OBVIOUS
  <2>1. CASE {j \in Index : days[j].used} # Index
    BY <1>4, <2>1 DEF Kept
  <2>2. CASE {j \in Index : days[j].used} = Index
    <3>1. days[NDays - 1].used
      BY <1>1, <2>2
    <3>2. i = NDays - 1 \/ DayOf(days[i].date) > DayOf(days[NDays - 1].date)
      BY <1>1, <1>4, <3>1 DEF DayOk
    <3>3. f[i] = DayOf(days[i].date) /\ f[i] \in Nat /\ DayOf(days[NDays - 1].date) \in Nat
      BY <1>1, <1>3, <1>4
    <3> HIDE DEF f
    <3>4. f[i] >= DayOf(days[NDays - 1].date)
      BY <3>2, <3>3
    <3> QED BY <1>4, <3>4 DEF Kept
  <2> QED BY <2>1, <2>2
<1>8. \A d \in kept \ image : lg[d] = Zero
  <2> SUFFICES ASSUME NEW d \in kept, d \notin image, lg[d] # Zero PROVE FALSE
    OBVIOUS
  <2>1. ~\E i \in Index : days[i].used /\ f[i] = d
    <3> SUFFICES ASSUME NEW i \in Index, days[i].used, f[i] = d PROVE FALSE
      OBVIOUS
    <3>1. i \in entries
      BY <1>3
    <3> QED BY <3>1
  <2>2. days[NDays - 1].used /\ d < DayOf(days[NDays - 1].date)
    BY <1>3, <2>1 DEF DayOk, Kept
  <2>3. {j \in Index : days[j].used} = Index
    <3> SUFFICES ASSUME NEW j \in Index PROVE days[j].used
      OBVIOUS
    <3> QED BY <1>1, <2>2 DEF DayOk
  <2>4. d \in Kept(days)
    OBVIOUS
  <2>5. d \in Int /\ DayOf(days[NDays - 1].date) \in Int /\ d >= DayOf(days[NDays - 1].date)
    <3>1. d \in Days /\ d >= DayOf(days[NDays - 1].date)
      BY <2>3, <2>4 DEF Kept
    <3>2. DayOf(days[NDays - 1].date) \in Nat
      BY <1>1, <1>3
    <3> QED BY <1>1, <3>1, <3>2 DEF Days
  <2> QED BY <2>2, <2>5
<1>9. Sum(v, entries) = Sum(lg, image)
  <2> HIDE DEF f, v
  <2>1. \A i \in entries : v[i] \in KiB /\ lg[f[i]] = v[i] /\ f[i] \in kept
    BY <1>3, <1>4, <1>7
  <2> HIDE DEF kept
  <2> QED BY <1>5, <1>6, <2>1, SumMoved
<1>10. Sum(lg, kept) = Sum(lg, image)
  <2>1. \A d \in kept : lg[d] \in KiB
    BY <1>2
  <2> HIDE DEF kept, image
  <2> QED BY <1>6, <1>7, <1>8, <2>1, SumIgnores
<1> QED BY <1>9, <1>10

\* Days of which the later is less than a year of weeks ahead have weeks of one
\* number only if they are of one week; and the number before belongs to the
\* week before.
LEMMA WeekNumbers ==
    ASSUME NEW d \in Nat, NEW today \in Nat, d <= today,
           today \div WeekDays - d \div WeekDays < WeeksPerYear
    PROVE  /\ WeekOf(d) = WeekOf(today) <=> d \div WeekDays = today \div WeekDays
           /\ WeekOf(today) # 1 =>
                 (WeekOf(d) = WeekOf(today) - 1 <=> d \div WeekDays = today \div WeekDays - 1)
<1> DEFINE m == WeeksPerYear  a == today \div WeekDays  b == d \div WeekDays  r == a % m  s == b % m
<1>1. m \in Nat \ {0} /\ a \in Nat /\ b \in Nat /\ b <= a /\ a - b < m
  BY ShowAssumption, DivModNat, DivMonotone
<1>2. r \in 0..(m - 1) /\ s \in 0..(m - 1)
  BY <1>1, DivModNat
<1>3. WeekOf(d) = s + 1 /\ WeekOf(today) = r + 1
  BY DEF WeekOf
<1> HIDE DEF a, b, m
<1>4. s = r => b = a
  <2>1. ASSUME s = r PROVE b = a
    <3>1. b <= a /\ a <= b + 2 * m
      BY <1>1
    <3>2. a = b \/ a = b + m \/ a = b + 2 * m
      BY <1>1, <2>1, <3>1, TurnsApart
    <3> QED BY <1>1, <3>2
  <2> QED BY <2>1
<1>5. ASSUME r # 0 PROVE a - 1 \in Nat /\ (a - 1) % m = r - 1
  <2> DEFINE p == a \div m
  <2>1. p \in Nat /\ a = m * p + r
    BY <1>1, DivModNat
  <2>2. m * p \in Nat
    BY <1>1, <2>1
  <2> HIDE DEF p, r
  <2>3. a - 1 \in Nat /\ a - 1 \in Int /\ a - 1 = m * p + (r - 1) /\ r - 1 \in 0..(m - 1) /\ p \in Int
    BY <1>1, <1>2, <1>5, <2>1, <2>2
  <2>4. r - 1 = (a - 1) % m
    BY <1>1, <2>3, DivUnique
  <2> QED BY <2>3, <2>4
<1>6. ASSUME r # 0 PROVE s = r - 1 <=> b = a - 1
  <2>1. b = a - 1 => s = r - 1
    BY <1>5, <1>6
  <2>2. ASSUME s = r - 1 PROVE b = a - 1
    <3>1. b # a
      BY <1>2, <2>2
    <3>2. b <= a - 1 /\ a - 1 <= b + 2 * m /\ a - 1 \in Nat /\ b % m = (a - 1) % m
      BY <1>1, <1>5, <1>6, <2>2, <3>1
    <3>3. a - 1 = b \/ a - 1 = b + m \/ a - 1 = b + 2 * m
      BY <1>1, <3>2, TurnsApart
    <3> QED BY <1>1, <3>3
  <2> QED BY <2>1, <2>2
<1> HIDE DEF r, s
<1>7. WeekOf(d) = WeekOf(today) <=> s = r
  BY <1>2, <1>3
<1>8. WeekOf(today) # 1 => r # 0
  BY <1>2, <1>3
<1>9. WeekOf(d) = WeekOf(today) - 1 <=> s = r - 1
  BY <1>2, <1>3
<1>10. a = b => s = r
  BY DEF s, r
<1> QED BY <1>4, <1>6, <1>7, <1>8, <1>9, <1>10 DEF a, b

\* A minute of less than a number of days ago is of a day no longer ago, and one
\* of longer ago is of a day at least as long ago.
LEMMA SinceDays ==
    ASSUME NEW t \in Nat, NEW now1 \in Nat, NEW days \in Nat
    PROVE  /\ t >= now1 - days * DayLength => DayOf(t) >= DayOf(now1) - days
           /\ DayOf(t) >= DayOf(now1) - days + 1 => t >= now1 - days * DayLength
<1> DEFINE L == DayLength  p == t \div L  r == t % L  q == now1 \div L  s == now1 % L
<1>1. L \in Nat \ {0}
  BY CalendarAssumption DEF DayLength
<1>2. /\ p \in Nat /\ r \in 0..(L - 1) /\ t = L * p + r
      /\ q \in Nat /\ s \in 0..(L - 1) /\ now1 = L * q + s
  BY <1>1, DivModNat
<1>3. DayOf(t) = p /\ DayOf(now1) = q
  BY DEF DayOf
<1> HIDE DEF L, p, q, r, s
<1>4. L * p \in Nat /\ L * q \in Nat /\ L * days \in Nat /\ days * L = L * days
  BY <1>1, <1>2
<1>5. ASSUME t >= now1 - days * L PROVE p >= q - days
  <2> SUFFICES ASSUME p < q - days PROVE FALSE
    BY <1>2
  <2>1. PICK n \in Nat : q = p + days + 1 + n
    <3>1. q - days - 1 - p \in Nat /\ q = p + days + 1 + (q - days - 1 - p)
      BY <1>2
    <3> QED BY <3>1
  <2>2. L * n \in Nat /\ L * q = L * p + L * days + L + L * n
    BY <1>1, <1>2, <2>1
  <2> QED BY <1>1, <1>2, <1>4, <1>5, <2>2
<1>6. ASSUME p >= q - days + 1 PROVE t >= now1 - days * L
  <2>1. PICK n \in Nat : p = q - days + 1 + n
    <3>1. p - q + days - 1 \in Nat /\ p = q - days + 1 + (p - q + days - 1)
      BY <1>2, <1>6
    <3> QED BY <3>1
  <2>2. L * n \in Nat /\ L * p = L * q - L * days + L + L * n
    BY <1>1, <1>2, <2>1
  <2> QED BY <1>1, <1>2, <1>4, <2>2
<1> QED BY <1>3, <1>5, <1>6 DEF L

\* The weeks that are shown have the traffic of their days, as far as the
\* record still has them, for any length of weeks and of years, if no entry is
\* as old as a year; the last seven days are those before today and today, or
\* one more.
THEOREM WeeksExactAlways == Spec => []WeeksExact
<1>1. DayInv => WeeksExact
  <2> SUFFICES ASSUME DayInv PROVE WeeksExact
    OBVIOUS
  <2> DEFINE used == {i \in DOMAIN data.day : data.day[i].used}
             today == DayOf(now)
             week == today \div WeekDays
             Kept1(d) == used # DOMAIN data.day \/ d >= DayOf(data.day[NDays - 1].date)
             Week(w) == {d \in Days : d \div WeekDays = w}
             Ago(n) == {d \in Days : d >= today - n}
             InWeek(n) == {i \in DOMAIN data.day : WeekOf(DayOf(data.day[i].date)) = n}
             recent == {i \in DOMAIN data.day : data.day[i].date >= now - WeekDays * DayLength}
             Of(some) == {i \in Index : data.day[i].used /\ DayOf(data.day[i].date) \in some}
  <2>1. /\ DayOk(data.day, log, DayOf(lastpass)) /\ DOMAIN data.day = Index
        /\ data.day \in [Index -> DayEntries]
        /\ lastpass \in Nat /\ now \in Nat /\ today \in Nat /\ DayOf(lastpass) <= today
    BY DayOfType, CalendarAssumption DEF DayInv, DayOk
  <2>2. used = {i \in Index : data.day[i].used} /\ used \subseteq Index
    BY <2>1
  <2>3. \A i \in Index : data.day[i].date \in Nat /\ DayOf(data.day[i].date) \in Nat
    BY <2>1, DayOfType DEF DayEntries
  <2>4. ASSUME NEW i \in used PROVE DayOf(data.day[i].date) <= today /\ DayOf(data.day[i].date) \in Days
    <3>1. NDays \in Nat \ {0, 1} /\ 0 \in Index /\ Index \subseteq Nat /\ MaxNow \in Nat
      BY CalendarAssumption DEF Index
    <3>2. i \in Index /\ i \in Nat /\ (i = 0 \/ 0 < i)
      <4>1. i \in Index /\ i \in Nat
        BY <2>2, <3>1
      <4> HIDE DEF used
      <4> QED BY <4>1
    <3>3. i = 0 \/ DayOf(data.day[0].date) > DayOf(data.day[i].date)
      BY <2>1, <2>2, <3>1, <3>2 DEF DayOk
    <3>4. DayOf(data.day[0].date) = DayOf(lastpass) /\ DayOf(lastpass) \in Days
      BY <2>1 DEF DayOk
    <3>5. DayOf(data.day[i].date) <= DayOf(lastpass)
      BY <2>3, <3>2, <3>3, <3>4 DEF Days
    <3>6. DayOf(MaxNow) \in Nat
      BY <3>1, DayOfType
    <3> QED BY <2>1, <2>3, <3>2, <3>4, <3>5, <3>6 DEF Days
  <2>5. ASSUME NEW some \in SUBSET Days, NEW entries \in SUBSET Index,
               \A i \in used : i \in entries <=> DayOf(data.day[i].date) \in some
        PROVE  InKiB(DaysSum(data, entries)) = Sum(log, {d \in some : Kept1(d)})
    <3>1. InKiB(DaysSum(data, entries)) = Sum(Holds(data.day), {i \in entries : data.day[i].used})
      BY <2>1, DaysSumIs
    <3>2. {i \in entries : data.day[i].used} = Of(some)
      BY <2>2, <2>5
    <3>3. Sum(Holds(data.day), Of(some)) = Sum(log, some \cap Kept(data.day))
      BY <2>1, DaysOfRecord
    <3>4. {d \in some : Kept1(d)} = some \cap Kept(data.day)
      BY <2>1, <2>2 DEF Kept
    <3> QED BY <3>1, <3>2, <3>3, <3>4
  <2>6. /\ ThisWeek(data) = DaysSum(data, InWeek(WeekOf(today)))
        /\ LastWeek(data) = DaysSum(data, InWeek(WeekOf(today) - 1))
        /\ LastDays(data) = DaysSum(data, recent)
    BY DEF ThisWeek, LastWeek, LastDays
  <2>7. /\ InWeek(WeekOf(today)) \in SUBSET Index
        /\ InWeek(WeekOf(today) - 1) \in SUBSET Index /\ recent \in SUBSET Index
    BY <2>1
  <2>8. ASSUME \A i \in used : week - DayOf(data.day[i].date) \div WeekDays < WeeksPerYear
        PROVE  /\ InKiB(ThisWeek(data)) = Sum(log, {d \in Week(week) : Kept1(d)})
               /\ WeekOf(today) # 1 =>
                     InKiB(LastWeek(data)) = Sum(log, {d \in Week(week - 1) : Kept1(d)})
    <3>1. ASSUME NEW i \in used
          PROVE  /\ i \in InWeek(WeekOf(today)) <=> DayOf(data.day[i].date) \in Week(week)
                 /\ WeekOf(today) # 1 =>
                       (i \in InWeek(WeekOf(today) - 1) <=> DayOf(data.day[i].date) \in Week(week - 1))
      <4> DEFINE d == DayOf(data.day[i].date)
      <4>1. d \in Nat /\ d <= today /\ d \in Days /\ today \div WeekDays - d \div WeekDays < WeeksPerYear
        BY <2>2, <2>3, <2>4, <2>8
      <4>2. /\ WeekOf(d) = WeekOf(today) <=> d \div WeekDays = week
            /\ WeekOf(today) # 1 => (WeekOf(d) = WeekOf(today) - 1 <=> d \div WeekDays = week - 1)
        BY <2>1, <4>1, WeekNumbers
      <4> QED BY <2>1, <2>2, <4>1, <4>2
    <3>2. Week(week) \in SUBSET Days /\ Week(week - 1) \in SUBSET Days
      OBVIOUS
    <3> HIDE DEF InWeek, Week, Kept1, used
    <3> QED BY <2>5, <2>6, <2>7, <3>1, <3>2
  <2>9. \E n \in {WeekDays - 1, WeekDays} : InKiB(LastDays(data)) = Sum(log, {d \in Ago(n) : Kept1(d)})
    <3>1. WeekDays \in Nat \ {0}
      BY ShowAssumption
    <3>2. ASSUME NEW i \in used
          PROVE  /\ i \in recent => DayOf(data.day[i].date) >= today - WeekDays
                 /\ DayOf(data.day[i].date) >= today - WeekDays + 1 => i \in recent
      <4>1. i \in Index /\ data.day[i].date \in Nat
        BY <2>2, <2>3
      <4> QED BY <2>1, <3>1, <4>1, SinceDays
    <3>3. CASE \E i \in used : i \in recent /\ DayOf(data.day[i].date) = today - WeekDays
      <4>1. PICK j \in used : j \in recent /\ DayOf(data.day[j].date) = today - WeekDays
        BY <3>3
      <4>2. ASSUME NEW i \in used PROVE i \in recent <=> DayOf(data.day[i].date) \in Ago(WeekDays)
        <5>1. DayOf(data.day[i].date) \in Nat /\ DayOf(data.day[i].date) \in Days
          BY <2>2, <2>3, <2>4
        <5>2. ASSUME DayOf(data.day[i].date) = today - WeekDays PROVE i = j
          <6>1. i \in Index /\ j \in Index /\ Index \subseteq Int
            BY <2>2, <4>1 DEF Index
          <6>2. ~(i < j) /\ ~(j < i)
            BY <2>1, <2>2, <2>3, <4>1, <5>2, <6>1 DEF DayOk
          <6> QED BY <6>1, <6>2
        <5> HIDE DEF recent
        <5>3. DayOf(data.day[i].date) >= today - WeekDays => i \in recent
          BY <2>1, <3>1, <3>2, <4>1, <5>1, <5>2
        <5> QED BY <3>2, <5>1, <5>3
      <4>3. Ago(WeekDays) \in SUBSET Days
        OBVIOUS
      <4> HIDE DEF recent, Ago, Kept1, used
      <4> QED BY <2>5, <2>6, <2>7, <4>2, <4>3
    <3>4. CASE ~\E i \in used : i \in recent /\ DayOf(data.day[i].date) = today - WeekDays
      <4>1. ASSUME NEW i \in used PROVE i \in recent <=> DayOf(data.day[i].date) \in Ago(WeekDays - 1)
        <5>1. DayOf(data.day[i].date) \in Nat /\ DayOf(data.day[i].date) \in Days
          BY <2>2, <2>3, <2>4
        <5> HIDE DEF recent
        <5>2. i \in recent <=> DayOf(data.day[i].date) >= today - (WeekDays - 1)
          BY <2>1, <3>1, <3>2, <3>4, <5>1
        <5> QED BY <5>1, <5>2
      <4>2. Ago(WeekDays - 1) \in SUBSET Days
        OBVIOUS
      <4> HIDE DEF recent, Ago, Kept1, used
      <4> QED BY <2>5, <2>6, <2>7, <4>1, <4>2
    <3> QED BY <3>3, <3>4
  <2>10. /\ \A w : {d \in Week(w) : Kept1(d)} = {d \in Days : d \div WeekDays = w /\ Kept1(d)}
         /\ \A n : {d \in Ago(n) : Kept1(d)} = {d \in Days : d >= today - n /\ Kept1(d)}
    OBVIOUS
  <2> QED BY <2>8, <2>9, <2>10 DEF WeeksExact, Sum
<1> QED BY DayInit, DayNext, <1>1, PTL DEF Spec

-----------------------------------------------------------------------------
(***************************************************************************)
(* Estimates: what they divide by, and what they come to.                  *)
(***************************************************************************)

\* The used months were opened on MonthRotate or later, and not after t; the
\* first is one of them.
OpenedBy(months, t) ==
    /\ months[0].used
    /\ \A i \in Months : months[i].used =>
          mday(DayOf(months[i].date)) >= MonthRotate /\ months[i].date <= t

Timely(d) == d.lastupdated <= now /\ OpenedBy(d.month, d.lastupdated)

TimelyInv == TypeOK /\ \A d \in {data, retired} \ {NoRecord} : Timely(d)

\* What a record consists of.
LEMMA RecordParts ==
    ASSUME NEW d \in Records
    PROVE  /\ d.lastupdated \in Moments /\ HasMonths(d) /\ d.month \in [Months -> DayEntries]
           /\ \A i \in Months : d.month[i].date \in Moments /\ d.month[i].sum \in DaySums
           /\ d.day \in [Index -> Entries] /\ \A i \in Index : d.day[i].sum \in DaySums
           /\ Moments \subseteq Nat
<1>1. Entries = [date : Moments, sum : DaySums, used : BOOLEAN] /\ Moments \subseteq Nat
  BY SumsAre, CalendarAssumption DEF Entries, Moments
<1>2. d \in [total : Sums, lastupdated : Moments, day : [Index -> Entries], month : [Months -> Entries],
             top10 : [Tops -> Entries], hour : [HourIndex -> HourEntries]]
  BY RecordsAre
<1>3. d.lastupdated \in Moments /\ d.month \in [Months -> Entries] /\ d.day \in [Index -> Entries]
  BY <1>2
<1>4. HasMonths(d)
  BY <1>2 DEF HasMonths
<1>5. Entries \subseteq DayEntries
  BY <1>1 DEF DayEntries
<1> HIDE DEF Moments
<1>6. d.month \in [Months -> DayEntries]
  BY <1>3, <1>5
<1>7. \A i \in Months : d.month[i].date \in Moments /\ d.month[i].sum \in DaySums
  BY <1>1, <1>3
<1>8. \A i \in Index : d.day[i].sum \in DaySums
  BY <1>1, <1>3
<1> QED BY <1>1, <1>3, <1>4, <1>6, <1>7, <1>8

\* A pass opens a month on MonthRotate or later only.
LEMMA TimelyPass ==
    ASSUME NEW d \in Records, NEW a \in KiB, now \in Moments, OpenedBy(d.month, now)
    PROVE  OpenedBy(parseifinfo(d, a).month, now)
<1> DEFINE e == UpdateDays(UpdateHours(AddCurrent(d, a), a))
<1>1. HasMonths(d) /\ d.month \in [Months -> DayEntries] /\ 0 \in Months /\ now \in Nat
  BY RecordParts, MonthSizes
<1>2. /\ HasMonths(e) /\ e.month = AddCurrent(d, a).month
      /\ AddCurrent(d, a).month =
           [i \in Months |->
               IF i = 0 THEN [date |-> d.month[0].date, sum |-> Add(d.month[0].sum, a), used |-> d.month[0].used]
               ELSE d.month[i]]
  BY <1>1, CurrentMonth, MonthSteps
<1>3. /\ \A i \in Months : e.month[i].date = d.month[i].date /\ e.month[i].used = d.month[i].used
      /\ DOMAIN e.month = Months
  BY <1>1, <1>2
<1>4. e.month \in [Months -> DayEntries]
  <2>1. d.month[0].date \in Nat /\ d.month[0].used \in BOOLEAN /\ Add(d.month[0].sum, a) \in DaySums
    BY <1>1, AddKiB DEF DayEntries
  <2> QED BY <1>1, <1>2, <2>1 DEF DayEntries
<1>5. parseifinfo(d, a) = UpdateMonths(e)
  BY DEF parseifinfo
<1> HIDE DEF e
<1>6. CASE MonthOver(e)
  <2> DEFINE new == Shifted(e.month)
  <2>1. UpdateMonths(e).month = new
    BY <1>2, <1>6 DEF UpdateMonths, rotatemonths, HasMonths
  <2>2. /\ new[0] = [date |-> now, sum |-> ZeroSum, used |-> e.month[0].used]
        /\ \A i \in Months : i # 0 => i - 1 \in Months /\ new[i] = e.month[i - 1]
    <3>1. NMonths \in Nat \ {0} /\ \A i \in Months : i # 0 => i - 1 \in Months /\ i \in 1..(NMonths - 1)
      BY MonthSizes DEF Months
    <3> QED BY <1>4, <3>1, ShiftedIs DEF Months
  <2>3. mday(DayOf(now)) >= MonthRotate
    BY <1>6 DEF MonthOver, tm_mday
  <2> HIDE DEF new
  <2>4. ASSUME NEW i \in Months, new[i].used
        PROVE  mday(DayOf(new[i].date)) >= MonthRotate /\ new[i].date <= now
    <3>1. CASE i = 0
      BY <1>1, <2>2, <2>3, <3>1
    <3>2. CASE i # 0
      BY <1>3, <2>2, <2>4, <3>2 DEF OpenedBy
    <3> QED BY <3>1, <3>2
  <2> QED BY <1>1, <1>3, <1>5, <2>1, <2>2, <2>4 DEF OpenedBy
<1>7. CASE ~MonthOver(e)
  BY <1>1, <1>3, <1>5, <1>7 DEF UpdateMonths, OpenedBy
<1> QED BY <1>6, <1>7

\* A record that is written is up to date.
LEMMA TimelyWritten ==
    ASSUME NEW d \in Records, now \in Moments, OpenedBy(d.month, now) PROVE Timely(Written(d))
<1>1. Written(d).month = d.month /\ Written(d).lastupdated = now
  BY RecordParts, MonthSteps, HourSteps
<1>2. now \in Nat
  BY RecordParts
<1> QED BY <1>1, <1>2 DEF Timely

\* What is opened by a moment is opened by a later one.
LEMMA StillOpened ==
    ASSUME NEW d \in Records, now \in Moments, Timely(d) PROVE OpenedBy(d.month, now)
<1>1. now \in Nat /\ d.lastupdated \in Nat /\ \A i \in Months : d.month[i].date \in Nat
  BY RecordParts
<1> QED BY <1>1 DEF Timely, OpenedBy

LEMMA TimelyInit == Init => TimelyInv
<1> SUFFICES ASSUME Init PROVE TimelyInv
  OBVIOUS
<1>1. now \in Starts /\ now \in Moments /\ data = parseifinfo(initdb, Zero) /\ retired = NoRecord
  BY CalendarAssumption DEF Init, Moments
<1>2. initdb \in Records
  BY <1>1, FirstType
<1>3. PICK date \in Nat :
         /\ Opened(date, Billing(DayOf(now))) /\ date <= now
         /\ initdb.month = [i \in Months |-> IF i = 0 THEN [date |-> date, sum |-> ZeroSum, used |-> TRUE]
                                             ELSE Unused]
  BY <1>1, FirstMonth
<1>4. mday(DayOf(date)) >= MonthRotate
  <2>1. DayOf(date) \in Covered /\ MonthOf[DayOf(date)] = Billing(DayOf(date))
    BY <1>3 DEF Opened
  <2>2. MonthOf[DayOf(date)] \in Nat /\ mday(DayOf(date)) \in Nat /\ MonthRotate \in Nat
    BY <2>1, MdayType, FirstDays
  <2> QED BY <2>1, <2>2 DEF Billing
<1>5. OpenedBy(initdb.month, now)
  BY <1>3, <1>4, MonthSizes DEF OpenedBy, Unused
<1>6. OpenedBy(data.month, now)
  BY <1>1, <1>2, <1>5, TimelyPass, Empty
<1>7. data.lastupdated = now
  <2>1. initdb.lastupdated = now
    BY DEF initdb
  <2> QED BY <1>1, <1>2, <2>1, HourSteps
<1>8. now <= now
  BY <1>1, CalendarAssumption DEF Moments
<1> QED BY <1>1, <1>6, <1>7, <1>8, TypeInit DEF TimelyInv, Timely

LEMMA TimelyNext == TimelyInv /\ [Next]_vars => TimelyInv'
<1> SUFFICES ASSUME TimelyInv, [Next]_vars PROVE TimelyInv'
  OBVIOUS
<1>1. TypeOK' /\ now \in Moments /\ data \in Records
  BY TypeNext DEF TimelyInv, TypeOK, Moments
<1>2. data # NoRecord
  BY <1>1 DEF Records, NoRecord
<1>3. OpenedBy(data.month, now) /\ Timely(data)
  BY <1>1, <1>2, StillOpened DEF TimelyInv
<1>4. CASE Tick
  <2>1. now' > now /\ UNCHANGED <<data, retired>> /\ now' \in Nat /\ now \in Nat
    BY <1>1, <1>4, RecordParts, CalendarAssumption DEF Tick, Moments
  <2>2. ASSUME NEW d \in {data, retired} \ {NoRecord} PROVE Timely(d)'
    <3>1. d \in Records /\ Timely(d)
      BY <1>1 DEF TimelyInv, TypeOK
    <3>2. d.lastupdated \in Nat
      BY <3>1, RecordParts
    <3> QED BY <2>1, <3>1, <3>2 DEF Timely, OpenedBy
  <2> QED BY <1>1, <2>1, <2>2 DEF TimelyInv
<1>5. CASE Pass
  <2>1. PICK a \in Amounts \cup {Zero} : data' = Written(parseifinfo(data, a)) /\ UNCHANGED <<now, retired>>
    BY <1>5 DEF Pass
  <2>2. a \in KiB
    BY CalendarAssumption, Empty DEF KiB
  <2>3. Timely(data')
    BY <1>1, <1>3, <2>1, <2>2, PassType, TimelyPass, TimelyWritten
  <2> QED BY <1>1, <2>1, <2>3 DEF TimelyInv, Timely
<1>6. CASE Touch
  <2>1. Timely(data') /\ UNCHANGED <<now, retired>>
    BY <1>1, <1>3, <1>6, TimelyWritten DEF Touch
  <2> QED BY <1>1, <2>1 DEF TimelyInv, Timely
<1>7. CASE ClearTop
  <2> DEFINE d == [data EXCEPT !.top10 = [i \in DOMAIN @ |->
                                            [@[i] EXCEPT !.sum = ZeroSum, !.used = FALSE]]]
  <2>1. data' = Written(d) /\ UNCHANGED <<now, retired>>
    BY <1>7 DEF ClearTop
  <2>2. HasMonths(d) /\ d.month = data.month /\ "lastupdated" \in DOMAIN d
    BY <1>1, RecordParts DEF HasMonths, Records
  <2> HIDE DEF d
  <2>3. data'.month = data.month /\ data'.lastupdated = now /\ now <= now
    BY <1>1, <2>1, <2>2, MonthSteps, RecordParts DEF Written
  <2>4. Timely(data')
    BY <1>3, <2>3 DEF Timely
  <2> QED BY <1>1, <2>1, <2>4 DEF TimelyInv, Timely
<1>8. CASE Retire
  BY <1>1, <1>3, <1>8 DEF Retire, TimelyInv, Timely
<1>9. CASE UNCHANGED vars
  BY <1>1, <1>9 DEF vars, TimelyInv, Timely
<1> QED BY <1>4, <1>5, <1>6, <1>7, <1>8, <1>9 DEF Next

\* A product divided by no more than one of its factors is no less than the other.
LEMMA AtLeast ==
    ASSUME NEW a \in Nat, NEW b \in Nat, NEW c \in Nat \ {0}, c <= b PROVE (a * b) \div c >= a
<1>1. PICK t \in Nat : b = c + t
  <2>1. b - c \in Nat /\ b = c + (b - c)
    OBVIOUS
  <2> QED BY <2>1
<1>2. a * b = a * c + a * t /\ a * c \in Nat /\ a * t \in Nat /\ a * c = c * a + 0
  BY <1>1
<1>3. a = (a * c) \div c
  <2>1. a * c \in Int /\ a \in Int /\ 0 \in 0..(c - 1)
    BY <1>2
  <2> QED BY <1>2, <2>1, DivUnique
<1>4. (a * c) \div c <= (a * b) \div c
  <2>1. a * c \in Int /\ a * b \in Int /\ a * c <= a * b
    BY <1>2
  <2> QED BY <2>1, DivMonotone
<1>5. (a * b) \div c \in Nat
  <2>1. a * b \in Nat
    BY <1>2
  <2> QED BY <2>1, DivModNat
<1> QED BY <1>3, <1>4, <1>5

\* Days and minutes.
LEMMA MinutesOfDay ==
    ASSUME NEW t \in Moments
    PROVE  /\ DayLength \in Nat \ {0} /\ DayOf(t) \in Covered /\ DayOf(t) \in Nat /\ t \in Nat
           /\ t % DayLength \in 0..(DayLength - 1)
           /\ t = DayLength * DayOf(t) + (t % DayLength)
<1>1. DayLength \in Nat \ {0} /\ t \in Nat
  BY CalendarAssumption DEF DayLength, Moments
<1>2. DayOf(t) \in Covered
  BY DayInDays, DaysCovered DEF Moments
<1>3. DayOf(t) \in Nat /\ t % DayLength \in 0..(DayLength - 1) /\ t = DayLength * DayOf(t) + (t % DayLength)
  BY <1>1, DivModNat DEF DayOf
<1> QED BY <1>1, <1>2, <1>3

\* A month that was opened on MonthRotate or later began no later than that.
LEMMA BeganBefore ==
    ASSUME NEW t \in Moments, mday(DayOf(t)) >= MonthRotate
    PROVE  LET began == mktime(MonthPeriod(t), MonthRotate, 0) IN
           /\ began \in Nat /\ began <= t
           /\ began = DayLength * (FirstDay[MonthPeriod(t)] + MonthRotate - 1)
<1> DEFINE n == MonthPeriod(t)  first == FirstDay[n] + MonthRotate - 1  L == DayLength  r == t % L
           began == mktime(n, MonthRotate, 0)
<1>1. L \in Nat \ {0} /\ DayOf(t) \in Covered /\ DayOf(t) \in Nat /\ r \in 0..(L - 1) /\ t = L * DayOf(t) + r
  BY MinutesOfDay
<1>2. n = MonthOf[DayOf(t)] /\ n \in 0..(Last - 1) /\ n \in 0..Last /\ Last \in Nat
  BY <1>1, MdayType, FirstDays DEF MonthPeriod
<1>3. FirstDay[n] \in Nat /\ MonthRotate \in Nat \ {0}
  <2>1. n + 1 \in 1..Last
    BY <1>2
  <2> QED BY <1>2, <2>1, FirstDays
<1>4. mday(DayOf(t)) = DayOf(t) - FirstDay[n] + 1
  BY <1>2 DEF mday
<1>5. first \in Nat /\ first <= DayOf(t)
  BY <1>1, <1>3, <1>4
<1>6. began = first * L + (0 % L)
  BY DEF mktime
<1> HIDE DEF began, first, n, L, r
<1>7. 0 % L = 0
  <2>1. 0 \in Int /\ 0 = L * 0 + 0 /\ 0 \in 0..(L - 1)
    BY <1>1
  <2> QED BY <1>1, <2>1, DivUnique
<1>8. began = L * first /\ L * first \in Nat /\ L * DayOf(t) \in Nat
  BY <1>1, <1>5, <1>6, <1>7
<1>9. L * first <= L * DayOf(t)
  <2>1. PICK k \in Nat : DayOf(t) = first + k
    <3>1. DayOf(t) - first \in Nat /\ DayOf(t) = first + (DayOf(t) - first)
      BY <1>1, <1>5
    <3> QED BY <3>1
  <2>2. L * DayOf(t) = L * first + L * k /\ L * k \in Nat
    BY <1>1, <1>5, <2>1
  <2> QED BY <1>8, <2>2
<1>10. began \in Nat /\ began <= t
  BY <1>1, <1>8, <1>9
<1> QED BY <1>8, <1>10 DEF began, first, n, L

\* The month of a record that is in good time has begun.
LEMMA MonthBegan ==
    ASSUME NEW d, NEW date \in Moments, d.month[0].date = date, mday(DayOf(date)) >= MonthRotate,
           d.lastupdated \in Moments, date <= d.lastupdated, ~MonthGuarded(d)
    PROVE  /\ mosecs(d) = d.lastupdated - mktime(MonthPeriod(date), MonthRotate, 0)
           /\ mosecs(d) \in Nat \ {0}
<1>1. d.lastupdated # date /\ d.lastupdated \in Nat /\ date \in Nat
  BY CalendarAssumption DEF MonthGuarded, Moments
<1>2. ~(d.lastupdated <= date)
  BY <1>1
<1>3. mday(DayOf(date)) \in Nat /\ MonthRotate \in Nat
  <2>1. DayOf(date) \in Covered
    BY MinutesOfDay
  <2>2. MonthOf[DayOf(date)] + 1 \in 1..Last
    BY <2>1, MdayType, FirstDays
  <2> QED BY <2>1, <2>2, MdayType, FirstDays
<1>4. ~(tm_mday(date) < MonthRotate)
  BY <1>3 DEF tm_mday
<1>5. mosecs(d) = d.lastupdated - mktime(MonthPeriod(date), MonthRotate, 0)
  BY <1>2, <1>4 DEF mosecs
<1>6. mktime(MonthPeriod(date), MonthRotate, 0) \in Nat /\ mktime(MonthPeriod(date), MonthRotate, 0) <= date
  BY BeganBefore
<1> QED BY <1>1, <1>2, <1>5, <1>6

\* As long as the month is open, no more time has passed than it has.
LEMMA MonthLasts ==
    ASSUME NEW date \in Moments, mday(DayOf(date)) >= MonthRotate, NEW t \in Moments,
           Billing(DayOf(t)) = Billing(DayOf(date))
    PROVE  t - mktime(MonthPeriod(date), MonthRotate, 0)
             <= MonthLength[MonthPeriod(date) + 1] * DayLength
<1> DEFINE n == MonthPeriod(date)  day == DayOf(t)  L == DayLength  r == t % L
           m == MonthLength[n + 1]  first == FirstDay[n] + MonthRotate - 1
<1>1. /\ L \in Nat \ {0} /\ day \in Covered /\ day \in Nat /\ r \in 0..(L - 1) /\ t = L * day + r
      /\ DayOf(date) \in Covered
  BY MinutesOfDay
<1>2. n = MonthOf[DayOf(date)] /\ n \in 0..(Last - 1) /\ Last \in Nat /\ MonthOf[day] \in 0..(Last - 1)
  BY <1>1, MdayType, FirstDays DEF MonthPeriod
<1>3. /\ n \in 0..Last /\ n + 1 \in 1..Last /\ (n + 1) - 1 = n /\ MonthOf[day] \in 0..Last
      /\ MonthOf[day] + 1 \in 1..Last
  BY <1>2
<1>4. /\ FirstDay[n] \in Nat /\ FirstDay[n + 1] = FirstDay[n] + m /\ m \in Nat
      /\ MonthRotate \in Nat \ {0}
  BY <1>3, FirstDays
<1>5. mday(DayOf(date)) \in Nat /\ mday(day) \in Nat
  BY <1>1, <1>3, MdayType, FirstDays DEF MonthPeriod
<1>6. Billing(day) = n
  BY <1>2, <1>4, <1>5 DEF Billing
<1>7. day < first + m
  <2>1. CASE MonthOf[day] = n
    <3>1. day < FirstDay[n + 1]
      BY <1>1, <2>1, MonthOfDay DEF InMonth
    <3> QED BY <1>1, <1>4, <3>1
  <2>2. CASE MonthOf[day] # n
    <3>1. mday(day) < MonthRotate /\ MonthOf[day] = n + 1
      BY <1>2, <1>6, <2>2 DEF Billing
    <3>2. mday(day) = day - FirstDay[n + 1] + 1
      BY <3>1 DEF mday
    <3> QED BY <1>1, <1>4, <3>1, <3>2
  <2> QED BY <2>1, <2>2
<1>8. mktime(n, MonthRotate, 0) = L * first
  BY BeganBefore
<1> HIDE DEF n, day, L, r, m
<1>9. first \in Nat
  BY <1>4
<1> HIDE DEF first
<1>10. t <= L * first + L * m
  <2>1. PICK k \in Nat : first + m = day + 1 + k
    <3>1. first + m - day - 1 \in Nat /\ first + m = day + 1 + (first + m - day - 1)
      BY <1>1, <1>4, <1>7, <1>9
    <3> QED BY <3>1
  <2>2. L * first + L * m = L * (first + m)
    BY <1>1, <1>4, <1>9
  <2>3. L * (first + m) = L * day + L + L * k /\ L * k \in Nat /\ L * day \in Nat
    BY <1>1, <2>1
  <2> QED BY <1>1, <2>2, <2>3
<1>11. L * first \in Nat /\ L * m \in Nat /\ L * m = m * L
  BY <1>1, <1>4, <1>9
<1>12. t \in Nat
  BY CalendarAssumption DEF Moments
<1>13. t - L * first <= m * L
  BY <1>10, <1>11, <1>12
<1> QED BY <1>8, <1>13 DEF n, m, L

\* The estimate for the open month, if it is one of this year.
LEMMA MonthGrows ==
    ASSUME NEW d \in Records, OpenedBy(d.month, d.lastupdated), now \in Moments,
           Billing(DayOf(d.lastupdated)) = Billing(DayOf(d.month[0].date)),
           MonthPeriod(d.month[0].date) \div MonthsPerYear = MonthPeriod(now) \div MonthsPerYear,
           ~MonthGuarded(d), NEW x \in Dir
    PROVE  MonthEstimate(d)[x] >= d.month[0].sum[x].mb
<1> DEFINE date == d.month[0].date  n == MonthPeriod(date)  p == MonthPeriod(now)  y == MonthsPerYear
           mb == d.month[0].sum[x].mb
<1>1. /\ date \in Moments /\ d.lastupdated \in Moments /\ d.month[0].sum \in DaySums
      /\ mday(DayOf(date)) >= MonthRotate /\ date <= d.lastupdated
  BY RecordParts, MonthSizes DEF OpenedBy
<1>2. mb \in Nat
  BY <1>1 DEF DaySums
<1>3. n \in Nat /\ p \in Nat /\ y \in Nat \ {0} /\ n + 1 \in 1..Last
  <2>1. DayOf(date) \in Covered /\ DayOf(now) \in Covered
    BY <1>1, MinutesOfDay
  <2> QED BY <2>1, MdayType, FirstDays, CalendarAssumption DEF MonthPeriod
<1>4. dmonth(tm_mon(date)) = MonthLength[n + 1]
  <2> DEFINE q == p \div y
  <2>1. dmonth(tm_mon(date)) = MonthLength[p - (p % y) + (n % y) + 1]
    BY DEF dmonth, tm_mon, MonthPeriod
  <2>2. p = y * q + (p % y) /\ q = n \div y /\ q \in Nat /\ p % y \in 0..(y - 1)
    BY <1>3, DivModNat
  <2>3. n = y * (n \div y) + (n % y) /\ n % y \in 0..(y - 1)
    BY <1>3, DivModNat
  <2> HIDE DEF q, n, p
  <2>4. y * q \in Nat
    BY <1>3, <2>2
  <2>5. p - (p % y) + (n % y) = n
    BY <2>2, <2>3, <2>4
  <2> QED BY <2>1, <2>5
<1>5. mosecs(d) \in Nat \ {0} /\ mosecs(d) = d.lastupdated - mktime(n, MonthRotate, 0)
  BY <1>1, MonthBegan
<1>6. MonthLength[n + 1] \in Nat /\ DayLength \in Nat /\ MonthLength[n + 1] * DayLength \in Nat
  BY <1>1, <1>3, FirstDays, MinutesOfDay
<1>7. mosecs(d) <= MonthLength[n + 1] * DayLength
  BY <1>1, <1>5, MonthLasts
<1>8. MonthEstimate(d)[x] = (mb * dmonth(tm_mon(date)) * DayLength) \div mosecs(d)
  BY DEF MonthEstimate
<1> DEFINE m == MonthLength[n + 1]  s == mosecs(d)
<1>9. MonthEstimate(d)[x] = (mb * m * DayLength) \div s
  BY <1>4, <1>8
<1> HIDE DEF m, mb, s
<1>10. mb * m * DayLength = mb * (m * DayLength)
  BY <1>2, <1>6 DEF m
<1>11. (mb * (m * DayLength)) \div s >= mb
  <2> DEFINE b == m * DayLength
  <2>1. b \in Nat /\ s \in Nat \ {0} /\ s <= b
    BY <1>5, <1>6, <1>7 DEF m, s
  <2> HIDE DEF b
  <2>2. (mb * b) \div s >= mb
    BY <1>2, <2>1, AtLeast
  <2> QED BY <2>2 DEF b
<1> QED BY <1>9, <1>10, <1>11 DEF mb

\* The estimate for the day of the last update.
LEMMA DayGrows ==
    ASSUME NEW d \in Records, NEW x \in Dir
    PROVE  DayEstimate(d)[x] = 0 \/ DayEstimate(d)[x] >= d.day[0].sum[x].mb
<1> DEFINE mb == d.day[0].sum[x].mb  s == DayMinutes(d)
<1>1. s \in 0..(DayLength - 1) /\ DayLength \in Nat \ {0}
  BY RecordParts, MinutesOfDay DEF DayMinutes
<1>2. mb \in Nat
  <2>1. 0 \in Index /\ d.day[0].sum \in DaySums
    BY RecordParts, CalendarAssumption DEF Index
  <2> QED BY <2>1 DEF DaySums
<1>3. s # 0 => (mb * DayLength) \div s >= mb
  <2>1. ASSUME s # 0 PROVE s \in Nat \ {0} /\ s <= DayLength /\ DayLength \in Nat
    BY <1>1, <2>1
  <2> HIDE DEF s, mb
  <2> QED BY <1>2, <2>1, AtLeast
<1>4. DayEstimate(d)[x] = IF s = 0 \/ \E y \in Dir : d.day[0].sum[y].mb = 0 THEN 0 ELSE (mb * DayLength) \div s
  BY DEF DayEstimate
<1> QED BY <1>3, <1>4

\* The smallest of some numbers is one of them.
LEMMA MinIs ==
    ASSUME NEW S \in SUBSET Nat, S # {} PROVE Min(S) \in S /\ \A x \in S : Min(S) <= x
<1>1. \E x \in S : \A y \in S : x <= y
  BY Least
<1> QED BY <1>1 DEF Min

\* Where there is nothing to add, nothing is added.
LEMMA NothingAdded ==
    ASSUME NEW base, NEW from
    PROVE  FoldFunctionOnSet(LAMBDA e, sum : AddSum(sum, e.sum), base, from, {}) = base
<1> DEFINE Next1(f, s) == IF s = {} THEN base
                          ELSE AddSum(f[s \ {Pick(s)}], from[Pick(s)].sum)
           iter == CHOOSE f : f = [s \in SUBSET {} |-> Next1(f, s)]
           g == [s \in SUBSET {} |-> base]
<1>1. FoldFunctionOnSet(LAMBDA e, sum : AddSum(sum, e.sum), base, from, {}) = iter[{}]
  BY DEF FoldFunctionOnSet, MapThenFoldSet, Pick
<1>2. \A s \in SUBSET {} : s = {}
  OBVIOUS
<1>3. g = [s \in SUBSET {} |-> Next1(g, s)]
  BY <1>2
<1>4. iter = [s \in SUBSET {} |-> Next1(iter, s)]
  <2> HIDE DEF g
  <2> QED BY <1>3
<1> HIDE DEF iter
<1>5. {} \in SUBSET {} /\ iter[{}] = Next1(iter, {})
  BY <1>4
<1> QED BY <1>1, <1>5

\* The first month of a merged record is this one; each other is worked out
\* from the one before.
LEMMA DatesOfMonths ==
    /\ \A i \in Months : MonthDates[i] = IF i = 0 THEN now ELSE Before(MonthDates[i - 1])
    /\ MonthDates[0] = now
<1> DEFINE Next1(f, i) == IF i = 0 THEN now ELSE Before(f[i - 1])
           Partial(n, f) == DOMAIN f = 0..n /\ \A i \in 0..n : f[i] = Next1(f, i)
           Bad == {n \in Nat : ~\E f : Partial(n, f)}
<1>1. ASSUME NEW n \in Bad, \A m \in Bad : n <= m PROVE FALSE
  <2>1. CASE n = 0
    <3> DEFINE f == [i \in 0..0 |-> now]
    <3>1. Partial(0, f)
      OBVIOUS
    <3> HIDE DEF f, Partial
    <3> QED BY <2>1, <3>1
  <2>2. CASE n # 0
    <3>1. n - 1 \in Nat /\ n - 1 \notin Bad
      BY <1>1, <2>2
    <3>2. PICK f : Partial(n - 1, f)
      BY <3>1
    <3> DEFINE g == [i \in 0..n |-> IF i = n THEN Before(f[n - 1]) ELSE f[i]]
    <3>3. \A i \in 0..n : g[i] = Next1(g, i)
      <4> SUFFICES ASSUME NEW i \in 0..n PROVE g[i] = Next1(g, i)
        OBVIOUS
      <4>1. CASE i = n
        <5>1. n - 1 \in 0..n /\ n - 1 # n
          BY <3>1
        <5> QED BY <2>2, <4>1, <5>1
      <4>2. CASE i # n
        <5>1. i \in 0..(n - 1) /\ (i # 0 => i - 1 \in 0..n /\ i - 1 # n)
          BY <4>2
        <5> QED BY <3>2, <4>2, <5>1
      <4> QED BY <4>1, <4>2
    <3>4. Partial(n, g)
      BY <3>3
    <3> HIDE DEF g, Partial
    <3> QED BY <3>4
  <2> QED BY <2>1, <2>2
<1>2. Bad = {}
  <2>1. Bad \in SUBSET Nat
    OBVIOUS
  <2> HIDE DEF Bad
  <2> QED BY <1>1, <2>1, Least
<1>3. NMonths - 1 \in Nat /\ 0 \in Months /\ Months = 0..(NMonths - 1)
  BY MonthSizes DEF Months
<1>4. PICK f : Partial(NMonths - 1, f)
  <2> HIDE DEF Partial
  <2> QED BY <1>2, <1>3
<1> DEFINE g == [i \in Months |-> f[i]]
           dates == CHOOSE h : h = [i \in Months |-> Next1(h, i)]
<1>5. g = [i \in Months |-> Next1(g, i)]
  <2>1. ASSUME NEW i \in Months PROVE g[i] = Next1(g, i)
    <3>1. i # 0 => i - 1 \in Months
      BY <1>3
    <3> QED BY <1>3, <1>4, <3>1
  <2> QED BY <2>1
<1>6. dates = [i \in Months |-> Next1(dates, i)]
  <2> HIDE DEF g
  <2> QED BY <1>5
<1>7. MonthDates = [i \in Months |-> dates[i]]
  BY DEF MonthDates, Months
<1> HIDE DEF dates
<1>8. \A i \in Months : dates[i] = IF i = 0 THEN now ELSE Before(dates[i - 1])
  BY <1>6
<1>9. \A i \in Months : MonthDates[i] = dates[i] /\ (i # 0 => i - 1 \in Months)
  BY <1>3, <1>7
<1>10. \A i \in Months : MonthDates[i] = IF i = 0 THEN now ELSE Before(MonthDates[i - 1])
  BY <1>8, <1>9
<1> QED BY <1>3, <1>10

\* What MergeArray makes of the first month: without months of its period it
\* stays as it is; the earliest date remains.
LEMMA MergeFirst ==
    ASSUME NEW into, 0 \in DOMAIN into, {"date", "sum"} \subseteq DOMAIN into[0], into[0].date \in Nat,
           NEW from \in [Months -> DayEntries],
           NEW same, same = OfPeriod(from, MonthPeriod(into[0].date), "month"),
           NEW new, new = MergeArray(into, from, "month")
    PROVE  /\ 0 \in DOMAIN new /\ {"date", "sum"} \subseteq DOMAIN new[0] /\ new[0].date \in Nat
           /\ same \subseteq {i \in Months : from[i].used /\ MonthPeriod(from[i].date) = MonthPeriod(into[0].date)}
           /\ {i \in Months : from[i].used /\ MonthPeriod(from[i].date) = MonthPeriod(into[0].date)} \subseteq same
           /\ same = {} => new[0].sum = into[0].sum
           /\ new[0].date = into[0].date \/ \E i \in same : new[0].date = from[i].date
           /\ new[0].date <= into[0].date /\ \A i \in same : new[0].date <= from[i].date
<1> DEFINE dates == {into[0].date} \cup {from[i].date : i \in same}
           sums == FoldFunctionOnSet(LAMBDA e, sum : AddSum(sum, e.sum), into[0].sum, from, same)
<1>1. same = {i \in Months : from[i].used /\ MonthPeriod(from[i].date) = MonthPeriod(into[0].date)}
  BY DEF OfPeriod, Period
<1>2. dates \in SUBSET Nat /\ dates # {}
  <2>1. \A i \in Months : from[i].date \in Nat
    BY DEF DayEntries
  <2> QED BY <1>1, <2>1
<1>3. 0 \in DOMAIN new /\ new[0] = [into[0] EXCEPT !.sum = sums, !.date = Min(dates)]
  BY DEF MergeArray, Period
<1> HIDE DEF dates, sums
<1>4. new[0].date = Min(dates) /\ new[0].sum = sums /\ DOMAIN new[0] = DOMAIN into[0]
  BY <1>3
<1>5. Min(dates) \in dates /\ \A x \in dates : Min(dates) <= x
  BY <1>2, MinIs
<1>6. same = {} => sums = into[0].sum
  BY NothingAdded DEF sums
<1>7. /\ new[0].date \in Nat
      /\ new[0].date = into[0].date \/ \E i \in same : new[0].date = from[i].date
      /\ new[0].date <= into[0].date /\ \A i \in same : new[0].date <= from[i].date
  BY <1>2, <1>4, <1>5 DEF dates
<1> QED BY <1>1, <1>3, <1>4, <1>6, <1>7

\* A merged record has a month to estimate only if one of the two has it; and
\* then it has its date.
LEMMA MergedSound ==
    ASSUME now \in Moments, NEW r \in Records, Timely(r), NEW s \in Records, Timely(s)
    PROVE  LET d == mergedb(r, s) IN MonthGuarded(d) \/ mosecs(d) # 0
<1> DEFINE m0 == emptydb.month  m1 == MergeArray(m0, r.month, "month")
           m2 == MergeArray(m1, s.month, "month")
           d == mergedb(r, s)  p == MonthPeriod(now)
           OfNow(months) == {i \in Months : months[i].used /\ MonthPeriod(months[i].date) = p}
           date == m2[0].date
<1>1. /\ now \in Nat /\ 0 \in Months /\ r.month \in [Months -> DayEntries] /\ s.month \in [Months -> DayEntries]
      /\ r.lastupdated \in Moments /\ s.lastupdated \in Moments
      /\ \A i \in Months : r.month[i].date \in Moments /\ s.month[i].date \in Moments
      /\ Moments \subseteq Nat
  BY RecordParts, MonthSizes
<1>2. 0 \in DOMAIN m0 /\ {"date", "sum"} \subseteq DOMAIN m0[0] /\ m0[0].date = now /\ m0[0].sum = ZeroSum
  <2>1. m0 = [i \in Months |-> [date |-> MonthDates[i], sum |-> ZeroSum, used |-> TRUE]]
    BY DEF emptydb, Months
  <2> HIDE DEF m0
  <2> QED BY <1>1, <2>1, DatesOfMonths
<1>3. /\ d.month = Trimmed(m2)
      /\ d.lastupdated = LET t == IF r.lastupdated > 0 THEN r.lastupdated ELSE 0 IN
                         IF s.lastupdated > t THEN s.lastupdated ELSE t
  BY DEF mergedb, cleanmerged, mergewith, emptydb
<1> HIDE DEF m0
<1>4. /\ 0 \in DOMAIN m1 /\ {"date", "sum"} \subseteq DOMAIN m1[0] /\ m1[0].date \in Nat
      /\ OfNow(r.month) = {} => m1[0].sum = ZeroSum
      /\ m1[0].date = now \/ \E i \in OfNow(r.month) : m1[0].date = r.month[i].date
      /\ \A i \in OfNow(r.month) : m1[0].date <= r.month[i].date
  <2> DEFINE same == OfPeriod(r.month, MonthPeriod(m0[0].date), "month")
  <2> HIDE DEF m1
  <2>1. /\ 0 \in DOMAIN m1 /\ {"date", "sum"} \subseteq DOMAIN m1[0] /\ m1[0].date \in Nat
        /\ same \subseteq OfNow(r.month) /\ OfNow(r.month) \subseteq same
        /\ same = {} => m1[0].sum = m0[0].sum
        /\ m1[0].date = m0[0].date \/ \E i \in same : m1[0].date = r.month[i].date
        /\ \A i \in same : m1[0].date <= r.month[i].date
    BY <1>1, <1>2, MergeFirst DEF m1
  <2> HIDE DEF same, OfNow
  <2>2. same = OfNow(r.month)
    BY <2>1
  <2> QED BY <1>2, <2>1, <2>2
<1>5. MonthPeriod(m1[0].date) = p
  BY <1>4
<1> HIDE DEF m1
<1>6. /\ 0 \in DOMAIN m2 /\ {"date", "sum"} \subseteq DOMAIN m2[0] /\ date \in Nat
      /\ OfNow(s.month) = {} => m2[0].sum = m1[0].sum
      /\ date = m1[0].date \/ \E i \in OfNow(s.month) : date = s.month[i].date
      /\ date <= m1[0].date /\ \A i \in OfNow(s.month) : date <= s.month[i].date
  <2> DEFINE same == OfPeriod(s.month, MonthPeriod(m1[0].date), "month")
  <2> HIDE DEF m2
  <2>1. /\ 0 \in DOMAIN m2 /\ {"date", "sum"} \subseteq DOMAIN m2[0] /\ m2[0].date \in Nat
        /\ same \subseteq OfNow(s.month) /\ OfNow(s.month) \subseteq same
        /\ same = {} => m2[0].sum = m1[0].sum
        /\ m2[0].date = m1[0].date \/ \E i \in same : m2[0].date = s.month[i].date
        /\ m2[0].date <= m1[0].date /\ \A i \in same : m2[0].date <= s.month[i].date
    BY <1>1, <1>4, <1>5, MergeFirst DEF m2
  <2> HIDE DEF same, OfNow
  <2>2. same = OfNow(s.month)
    BY <2>1
  <2> QED BY <2>1, <2>2
<1> HIDE DEF m2
<1>7. d.month[0].sum = m2[0].sum /\ d.month[0].date = date
  <2>1. Trimmed(m2)[0].sum = m2[0].sum /\ Trimmed(m2)[0].date = m2[0].date
    BY <1>6 DEF Trimmed
  <2> QED BY <1>3, <2>1
<1>8. d.lastupdated \in Moments /\ r.lastupdated <= d.lastupdated /\ s.lastupdated <= d.lastupdated
  <2>1. r.lastupdated \in Nat /\ s.lastupdated \in Nat /\ 0 \in Moments
    BY <1>1, CalendarAssumption DEF Moments
  <2> HIDE DEF d
  <2> QED BY <1>1, <1>3, <2>1
<1> HIDE DEF d, date
<1> SUFFICES ASSUME ~MonthGuarded(d) PROVE mosecs(d) # 0
  BY DEF d
<1>9. OfNow(r.month) # {} \/ OfNow(s.month) # {}
  <2>1. ASSUME m2[0].sum = ZeroSum PROVE MonthGuarded(d)
    <3>1. "rx" \in Dir /\ d.month[0].sum["rx"].mb = 0
      BY <1>7, <2>1 DEF ZeroSum, Dir
    <3> QED BY <3>1 DEF MonthGuarded
  <2> HIDE DEF OfNow
  <2> QED BY <1>4, <1>6, <2>1
\* The date is one of those of the months that were merged, and no later than
\* the last update.
<1>10. date \in Moments /\ date <= d.lastupdated /\ mday(DayOf(date)) >= MonthRotate
  <2>0. /\ \A t, u \in Nat : t <= u /\ u <= d.lastupdated /\ u <= now => t <= d.lastupdated /\ t <= now
        /\ \A t, u \in Nat : date <= u /\ u <= t => date <= t
    <3> HIDE DEF OfNow
    <3>1. d.lastupdated \in Nat /\ date \in Nat
      BY <1>1, <1>6, <1>8
    <3> QED BY <1>1, <3>1
  <2>1. ASSUME NEW i \in OfNow(r.month)
        PROVE  /\ r.month[i].date \in Moments /\ r.month[i].date <= d.lastupdated
               /\ r.month[i].date <= now
               /\ mday(DayOf(r.month[i].date)) >= MonthRotate /\ date <= r.month[i].date
    <3>1. /\ i \in Months /\ r.month[i].date \in Nat /\ r.month[i].date \in Moments
          /\ r.month[i].date <= r.lastupdated /\ r.lastupdated \in Nat /\ r.lastupdated <= now
          /\ mday(DayOf(r.month[i].date)) >= MonthRotate
      BY <1>1 DEF Timely, OpenedBy
    <3>2. m1[0].date <= r.month[i].date /\ m1[0].date \in Nat /\ date <= m1[0].date /\ date \in Nat
      BY <1>4, <1>6
    <3> HIDE DEF OfNow
    <3> QED BY <1>8, <2>0, <3>1, <3>2
  <2>2. ASSUME NEW i \in OfNow(s.month)
        PROVE  /\ s.month[i].date \in Moments /\ s.month[i].date <= d.lastupdated
               /\ s.month[i].date <= now
               /\ mday(DayOf(s.month[i].date)) >= MonthRotate /\ date <= s.month[i].date
    <3>1. /\ i \in Months /\ s.month[i].date \in Nat /\ s.month[i].date \in Moments
          /\ s.month[i].date <= s.lastupdated /\ s.lastupdated \in Nat /\ s.lastupdated <= now
          /\ mday(DayOf(s.month[i].date)) >= MonthRotate
      BY <1>1 DEF Timely, OpenedBy
    <3>2. date <= s.month[i].date
      BY <1>6
    <3> HIDE DEF OfNow
    <3> QED BY <1>8, <2>0, <3>1, <3>2
  <2> DEFINE Good(t) == t \in Moments /\ t <= d.lastupdated /\ t <= now
                        /\ mday(DayOf(t)) >= MonthRotate /\ date <= t
  <2>3. \A i \in OfNow(r.month) : Good(r.month[i].date)
    BY <2>1
  <2>4. \A i \in OfNow(s.month) : Good(s.month[i].date)
    BY <2>2
  <2>5. \E t : Good(t)
    <3> HIDE DEF OfNow, Good
    <3> QED BY <1>9, <2>3, <2>4
  <2>6. date = now \/ Good(date)
    <3> HIDE DEF OfNow, Good
    <3> QED BY <1>4, <1>6, <2>3, <2>4
  <2>7. ASSUME date = now PROVE Good(date)
    <3>1. PICK t : Good(t)
      BY <2>5
    <3>2. t = date
      <4>1. t \in Nat /\ t <= now /\ now <= t
        BY <1>1, <2>7, <3>1
      <4> HIDE DEF OfNow, Good
      <4> QED BY <1>1, <2>7, <4>1
    <3> QED BY <3>1, <3>2
  <2> QED BY <2>6, <2>7
<1> QED BY <1>7, <1>8, <1>10, MonthBegan

\* Estimates divide by the time that has passed, never by 0, for any calendar,
\* any MonthRotate that all months have and any traffic, also for a merged
\* record; and they come to no less than what was counted already.
THEOREM EstimateSoundAlways == Spec => []EstimateSound
<1>1. TimelyInv => EstimateSound
  <2> SUFFICES ASSUME TimelyInv PROVE EstimateSound
    OBVIOUS
  <2>1. now \in Moments /\ data \in Records /\ data # NoRecord /\ retired \in Records \cup {NoRecord}
    <3>1. now \in Moments /\ data \in Records /\ retired \in Records \cup {NoRecord}
      BY DEF TimelyInv, TypeOK, Moments
    <3> QED BY <3>1 DEF Records, NoRecord
  <2>2. \A d \in {data, retired} \ {NoRecord} : d \in Records /\ Timely(d)
    BY <2>1 DEF TimelyInv
  <2>3. ASSUME NEW d \in {data, retired} \ {NoRecord} PROVE MonthGuarded(d) \/ mosecs(d) # 0
    <3>1. d \in Records /\ Timely(d)
      BY <2>2
    <3>2. /\ d.lastupdated \in Moments /\ d.month[0].date \in Moments /\ d.month[0].date <= d.lastupdated
          /\ mday(DayOf(d.month[0].date)) >= MonthRotate
      BY <3>1, RecordParts, MonthSizes DEF Timely, OpenedBy
    <3> QED BY <3>2, MonthBegan
  <2>4. ASSUME NEW d \in Shown PROVE MonthGuarded(d) \/ mosecs(d) # 0
    <3>1. CASE d \in {data, retired} \ {NoRecord}
      BY <2>3, <3>1
    <3>2. CASE d \notin {data, retired} \ {NoRecord}
      <4>1. retired # NoRecord /\ d = mergedb(data, retired)
        BY <2>1, <2>4, <3>2 DEF Shown
      <4> QED BY <2>1, <2>2, <4>1, MergedSound
    <3> QED BY <3>1, <3>2
  <2>5. ASSUME NEW d \in {data, retired} \ {NoRecord},
               Billing(DayOf(d.lastupdated)) = Billing(DayOf(d.month[0].date)),
               MonthOf[DayOf(d.month[0].date)] \div MonthsPerYear = MonthPeriod(now) \div MonthsPerYear,
               ~MonthGuarded(d), NEW x \in Dir
        PROVE  MonthEstimate(d)[x] >= d.month[0].sum[x].mb
    <3>1. d \in Records /\ OpenedBy(d.month, d.lastupdated)
      BY <2>2 DEF Timely
    <3>2. MonthPeriod(d.month[0].date) \div MonthsPerYear = MonthPeriod(now) \div MonthsPerYear
      BY <2>5 DEF MonthPeriod
    <3> QED BY <2>1, <2>5, <3>1, <3>2, MonthGrows
  <2>6. \A x \in Dir : DayEstimate(data)[x] = 0 \/ DayEstimate(data)[x] >= data.day[0].sum[x].mb
    BY <2>1, DayGrows
  <2> QED BY <2>4, <2>5, <2>6 DEF EstimateSound
<1> QED BY TimelyInit, TimelyNext, <1>1, PTL DEF Spec

-----------------------------------------------------------------------------
(***************************************************************************)
(* Merging: an array that is laid out before anything is added to it.      *)
(***************************************************************************)

\* Sums whose KiB are not carried, and entries with them.
WideSums == [Dir -> [mb : Nat, kb : Nat]]
WideEntries == [date : Int, sum : WideSums, used : BOOLEAN]

\* AddSum adds, although it does not carry.
LEMMA WideSum ==
    /\ DaySums \subseteq WideSums /\ ZeroSum \in WideSums /\ DayEntries \subseteq WideEntries
    /\ \A s \in WideSums : InKiB(s) \in KiB
    /\ \A s, t \in WideSums : /\ AddSum(s, t) \in WideSums
                              /\ InKiB(AddSum(s, t)) = Plus(InKiB(s), InKiB(t))
<1>1. K \in Nat \ {0}
  BY CountersAssumption
<1>2. DaySums \subseteq WideSums
  BY <1>1 DEF DaySums, WideSums
<1>3. ASSUME NEW s \in WideSums PROVE InKiB(s) \in KiB
  <2>1. \A x \in Dir : s[x].mb \in Nat /\ s[x].kb \in Nat
    BY DEF WideSums
  <2> QED BY <1>1, <2>1 DEF InKiB, InKB, KiB
<1>4. ASSUME NEW s \in WideSums, NEW t \in WideSums
      PROVE  AddSum(s, t) \in WideSums /\ InKiB(AddSum(s, t)) = Plus(InKiB(s), InKiB(t))
  <2>1. \A x \in Dir : s[x].mb \in Nat /\ s[x].kb \in Nat /\ t[x].mb \in Nat /\ t[x].kb \in Nat
    BY DEF WideSums
  <2>2. AddSum(s, t) \in WideSums
    BY <2>1 DEF AddSum, WideSums
  <2>3. ASSUME NEW x \in Dir
        PROVE  InKB(s[x].mb + t[x].mb, s[x].kb + t[x].kb) = InKB(s[x].mb, s[x].kb) + InKB(t[x].mb, t[x].kb)
    BY <1>1, <2>1 DEF InKB
  <2>4. InKiB(AddSum(s, t)) = [x \in Dir |-> InKB(s[x].mb + t[x].mb, s[x].kb + t[x].kb)]
    BY DEF InKiB, AddSum
  <2>5. Plus(InKiB(s), InKiB(t)) = [x \in Dir |-> InKB(s[x].mb, s[x].kb) + InKB(t[x].mb, t[x].kb)]
    BY DEF InKiB, Plus
  <2> QED BY <2>2, <2>3, <2>4, <2>5
<1> QED BY <1>2, <1>3, <1>4, Empty DEF DayEntries, WideEntries

\* Amounts may be added in another order.
LEMMA PlusMoved ==
    ASSUME NEW a \in KiB, NEW b \in KiB, NEW c \in KiB PROVE Plus(Plus(a, b), c) = Plus(a, Plus(c, b))
<1>1. \A x \in Dir : a[x] \in Nat /\ b[x] \in Nat /\ c[x] \in Nat
  BY DEF KiB
<1>2. \A x \in Dir : (a[x] + b[x]) + c[x] = a[x] + (c[x] + b[x])
  BY <1>1
<1>3. /\ Plus(Plus(a, b), c) = [x \in Dir |-> (a[x] + b[x]) + c[x]]
      /\ Plus(a, Plus(c, b)) = [x \in Dir |-> a[x] + (c[x] + b[x])]
  BY DEF Plus
<1> QED BY <1>2, <1>3

\* What the entries of an array with index set I hold.
HeldBy(array, I) == [i \in I |-> InKiB(array[i].sum)]

\* MergeArray adds what the entries hold to what was there.
LEMMA AddedSum ==
    ASSUME NEW I, NEW from \in [I -> DayEntries], NEW S \in SUBSET I, IsFiniteSet(S),
           NEW base \in WideSums,
           NEW sums, sums = FoldFunctionOnSet(LAMBDA e, sum : AddSum(sum, e.sum), base, from, S)
    PROVE  sums \in WideSums /\ InKiB(sums) = Plus(InKiB(base), Sum(HeldBy(from, I), S))
<1> DEFINE v == HeldBy(from, I)
           Next1(f, s) == IF s = {} THEN base ELSE AddSum(f[s \ {Pick(s)}], from[Pick(s)].sum)
           iter == CHOOSE f : f = [s \in SUBSET S |-> Next1(f, s)]
           pick == [s \in SUBSET S |-> Pick(s)]
           take == [q \in S \X WideSums |-> AddSum(q[2], from[q[1]].sum)]
<1>1. sums = iter[S]
  BY DEF FoldFunctionOnSet, MapThenFoldSet, Pick
<1>2. \A x \in S : /\ from[x].sum \in WideSums /\ InKiB(from[x].sum) \in KiB
                   /\ v[x] = InKiB(from[x].sum)
  <2>1. \A x \in S : x \in I /\ from[x].sum \in WideSums
    BY WideSum DEF DayEntries
  <2> QED BY <2>1, WideSum DEF HeldBy
<1> HIDE DEF v
<1>3. Picks(pick, S)
  BY Picked DEF Picks
<1>4. take \in [S \X WideSums -> WideSums]
  <2>1. ASSUME NEW q \in S \X WideSums PROVE AddSum(q[2], from[q[1]].sum) \in WideSums
    <3>1. q[1] \in S /\ q[2] \in WideSums
      OBVIOUS
    <3> QED BY <1>2, <3>1, WideSum
  <2> QED BY <2>1
<1>5. PICK g \in [SUBSET S -> WideSums] : Takes(g, take, base, pick, S)
  <2> HIDE DEF take, pick
  <2> QED BY <1>3, <1>4, TakingExists
<1>6. \A s \in SUBSET S : s # {} => Pick(s) \in S /\ Pick(s) \in s /\ s \ {Pick(s)} \in SUBSET S
  BY Picked
<1>7. ASSUME NEW s \in SUBSET S PROVE g[s] = Next1(g, s)
  <2>1. CASE s = {}
    BY <1>5, <2>1 DEF Takes
  <2>2. CASE s # {}
    <3>1. g[s] = take[<<Pick(s), g[s \ {Pick(s)}]>>]
      BY <1>5, <2>2 DEF Takes
    <3>2. Pick(s) \in S /\ g[s \ {Pick(s)}] \in WideSums
      BY <1>5, <1>6, <2>2
    <3> QED BY <2>2, <3>1, <3>2
  <2> QED BY <2>1, <2>2
<1>8. iter = [s \in SUBSET S |-> Next1(iter, s)]
  <2>1. g = [s \in SUBSET S |-> Next1(g, s)]
    <3>1. g = [s \in SUBSET S |-> g[s]]
      BY <1>5
    <3> QED BY <1>7, <3>1
  <2> QED BY <2>1
<1> HIDE DEF iter
<1>9. PICK h \in [SUBSET S -> KiB] : IsFold(h, PlusKiB, Zero, v, S) /\ Sum(v, S) = h[S]
  <2>1. \A x \in S : v[x] \in KiB
    BY <1>2
  <2> QED BY <2>1, SumIsFold
<1> DEFINE Bad == {s \in SUBSET S : ~(iter[s] \in WideSums /\ InKiB(iter[s]) = Plus(InKiB(base), h[s]))}
<1>10. ASSUME NEW s \in Bad, \A x \in s : s \ {x} \notin Bad PROVE FALSE
  <2>1. CASE s = {}
    <3>1. iter[s] = base /\ h[s] = Zero
      BY <1>8, <1>9, <2>1 DEF IsFold
    <3> QED BY <1>10, <3>1, Empty, WideSum
  <2>2. CASE s # {}
    <3> DEFINE x == Pick(s)  r == s \ {Pick(s)}
    <3>1. x \in S /\ x \in s /\ r \in SUBSET S
      BY <1>6, <2>2
    <3>2. iter[r] \in WideSums /\ InKiB(iter[r]) = Plus(InKiB(base), h[r])
      BY <1>10, <3>1
    <3>3. iter[s] = AddSum(iter[r], from[x].sum)
      BY <1>8, <2>2
    <3>4. h[s] = PlusKiB[<<v[x], h[r]>>]
      BY <1>9, <2>2 DEF IsFold
    <3> HIDE DEF x, r
    <3>5. iter[s] \in WideSums /\ InKiB(iter[s]) = Plus(Plus(InKiB(base), h[r]), v[x])
      BY <1>2, <3>1, <3>2, <3>3, WideSum
    <3>6. h[s] = Plus(v[x], h[r]) /\ v[x] \in KiB /\ h[r] \in KiB /\ InKiB(base) \in KiB
      BY <1>2, <1>9, <3>1, <3>4, PlusType, WideSum
    <3>7. Plus(Plus(InKiB(base), h[r]), v[x]) = Plus(InKiB(base), Plus(v[x], h[r]))
      BY <3>6, PlusMoved
    <3> QED BY <1>10, <3>5, <3>6, <3>7
  <2> QED BY <2>1, <2>2
<1>11. Bad = {}
  <2>1. Bad \in SUBSET (SUBSET S)
    OBVIOUS
  <2> HIDE DEF Bad
  <2> QED BY <1>10, <2>1, SmallSets
<1>12. S \in SUBSET S /\ S \notin Bad
  BY <1>11
<1> QED BY <1>1, <1>9, <1>12 DEF v

\* SumOf is the sum of what the entries of the period hold.
LEMMA SumOfIs ==
    ASSUME NEW I, IsFiniteSet(I), NEW array \in [I -> WideEntries], NEW p, NEW unit
    PROVE  SumOf(array, p, unit) = Sum(HeldBy(array, I), OfPeriod(array, p, unit))
<1> DEFINE v == HeldBy(array, I)  S == OfPeriod(array, p, unit)
           Next1(f, s) == IF s = {} THEN Zero ELSE Plus(f[s \ {Pick(s)}], InKiB(array[Pick(s)].sum))
           iter == CHOOSE f : f = [s \in SUBSET S |-> Next1(f, s)]
<1>1. SumOf(array, p, unit) = iter[S]
  BY DEF SumOf, FoldFunctionOnSet, MapThenFoldSet, Pick
<1>2. S \in SUBSET I /\ IsFiniteSet(S)
  <2>1. S \in SUBSET I
    BY DEF OfPeriod
  <2> QED BY <2>1, FS_Subset
<1>3. \A x \in S : v[x] = InKiB(array[x].sum) /\ v[x] \in KiB
  <2>1. \A x \in S : x \in I /\ array[x].sum \in WideSums
    BY <1>2 DEF WideEntries
  <2> QED BY <2>1, WideSum DEF HeldBy
<1> HIDE DEF v, S
<1>4. PICK h \in [SUBSET S -> KiB] : IsFold(h, PlusKiB, Zero, v, S) /\ Sum(v, S) = h[S]
  <2>1. \A x \in S : v[x] \in KiB
    BY <1>3
  <2> QED BY <1>2, <2>1, SumIsFold
<1>5. \A s \in SUBSET S : s # {} => Pick(s) \in S /\ Pick(s) \in s /\ s \ {Pick(s)} \in SUBSET S
  BY Picked
<1>6. ASSUME NEW s \in SUBSET S PROVE h[s] = Next1(h, s)
  <2>1. CASE s = {}
    BY <1>4, <2>1 DEF IsFold
  <2>2. CASE s # {}
    <3>1. h[s] = PlusKiB[<<v[Pick(s)], h[s \ {Pick(s)}]>>]
      BY <1>4, <2>2 DEF IsFold
    <3>2. Pick(s) \in S /\ h[s \ {Pick(s)}] \in KiB /\ v[Pick(s)] \in KiB
          /\ v[Pick(s)] = InKiB(array[Pick(s)].sum)
      BY <1>3, <1>4, <1>5, <2>2
    <3>3. \A a, b \in KiB : PlusKiB[<<a, b>>] = Plus(b, a)
      <4>1. \A a, b \in KiB : Plus(a, b) = Plus(b, a)
        BY DEF Plus, KiB
      <4> QED BY <4>1, PlusType
    <3> QED BY <2>2, <3>1, <3>2, <3>3
  <2> QED BY <2>1, <2>2
<1>7. iter = [s \in SUBSET S |-> Next1(iter, s)]
  <2>1. h = [s \in SUBSET S |-> Next1(h, s)]
    <3>1. h = [s \in SUBSET S |-> h[s]]
      BY <1>4
    <3> QED BY <1>6, <3>1
  <2> QED BY <2>1
<1> HIDE DEF iter
<1> DEFINE Bad == {s \in SUBSET S : iter[s] # h[s]}
<1>8. ASSUME NEW s \in Bad, \A x \in s : s \ {x} \notin Bad PROVE FALSE
  <2>1. CASE s = {}
    BY <1>6, <1>7, <1>8, <2>1
  <2>2. CASE s # {}
    <3>1. Pick(s) \in s /\ s \ {Pick(s)} \in SUBSET S
      BY <1>5, <2>2
    <3>2. iter[s \ {Pick(s)}] = h[s \ {Pick(s)}]
      BY <1>8, <3>1
    <3>3. iter[s] = Next1(iter, s) /\ h[s] = Next1(h, s)
      BY <1>6, <1>7
    <3> QED BY <1>8, <2>2, <3>2, <3>3
  <2> QED BY <2>1, <2>2
<1>9. Bad = {}
  <2>1. Bad \in SUBSET (SUBSET S)
    OBVIOUS
  <2> HIDE DEF Bad
  <2> QED BY <1>2, <1>8, <2>1, SmallSets
<1>10. S \in SUBSET S /\ S \notin Bad
  BY <1>9
<1> QED BY <1>1, <1>4, <1>10 DEF v, S

\* The smallest of numbers that are no less than some other.
LEMMA MinOf ==
    ASSUME NEW S \in SUBSET Int, S # {}, NEW b \in Int, \A x \in S : b <= x
    PROVE  Min(S) \in S /\ \A x \in S : Min(S) <= x
<1> DEFINE T == {x - b : x \in S}
<1>1. T \in SUBSET Nat /\ T # {}
  <2>1. \A x \in S : x - b \in Nat
    <3>1. \A x \in S : x \in Int /\ b <= x
      OBVIOUS
    <3> QED BY <3>1
  <2> QED BY <2>1
<1>2. PICK n \in T : \A m \in T : n <= m
  <2> HIDE DEF T
  <2> QED BY <1>1, Least
<1>3. PICK x \in S : n = x - b
  BY <1>2
<1>4. ASSUME NEW y \in S PROVE x <= y
  <2>1. x - b <= y - b
    BY <1>2, <1>3
  <2> QED BY <2>1
<1>5. \E z \in S : \A y \in S : z <= y
  BY <1>4
<1> QED BY <1>5 DEF Min

\* Each entry gets what the other record has of its period, keeps its period
\* and stays in use.
LEMMA MergeArrayIs ==
    ASSUME NEW I, IsFiniteSet(I), NEW into \in [I -> WideEntries], NEW from \in [I -> DayEntries],
           NEW unit, NEW i \in I, NEW new, new = MergeArray(into, from, unit),
           NEW p, p = Period(unit, into[i].date)
    PROVE  /\ new[i] \in WideEntries /\ Period(unit, new[i].date) = p /\ new[i].used = into[i].used
           /\ InKiB(new[i].sum) = Plus(InKiB(into[i].sum), SumOf(from, p, unit))
<1> DEFINE same == OfPeriod(from, p, unit)
           dates == {into[i].date} \cup {from[j].date : j \in same}
           sums == FoldFunctionOnSet(LAMBDA e, sum : AddSum(sum, e.sum), into[i].sum, from, same)
           e0 == into[i]
<1>1. same \in SUBSET I /\ IsFiniteSet(same) /\ \A j \in same : Period(unit, from[j].date) = p
  <2>1. same \in SUBSET I /\ \A j \in same : Period(unit, from[j].date) = p
    BY DEF OfPeriod
  <2> QED BY <2>1, FS_Subset
<1>2. new[i] = [e0 EXCEPT !.sum = sums, !.date = Min(dates)]
  BY DEF MergeArray
<1> HIDE DEF same
<1>3. e0 \in [date : Int, sum : WideSums, used : BOOLEAN]
  BY DEF WideEntries
<1>4. sums \in WideSums /\ InKiB(sums) = Plus(InKiB(e0.sum), Sum(HeldBy(from, I), same))
  BY <1>1, <1>3, AddedSum
<1>5. Sum(HeldBy(from, I), same) = SumOf(from, p, unit)
  <2>1. from \in [I -> WideEntries]
    BY WideSum
  <2> QED BY <2>1, SumOfIs DEF same
<1>6. Min(dates) \in dates /\ Min(dates) \in Int
  <2>1. \A j \in same : from[j].date \in Nat
    BY <1>1 DEF DayEntries
  <2> DEFINE b == IF e0.date < 0 THEN e0.date ELSE 0
  <2>2. dates \in SUBSET Int /\ dates # {} /\ b \in Int /\ \A x \in dates : b <= x
    BY <1>3, <2>1
  <2> HIDE DEF dates, b
  <2>3. Min(dates) \in dates
    BY <2>2, MinOf
  <2> QED BY <2>2, <2>3
<1>7. Period(unit, Min(dates)) = p
  BY <1>1, <1>6
<1> HIDE DEF dates, sums, e0
<1>8. new[i].sum = sums /\ new[i].date = Min(dates) /\ new[i].used = e0.used
      /\ new[i] \in [date : Int, sum : WideSums, used : BOOLEAN]
  BY <1>2, <1>3, <1>4, <1>6
<1> QED BY <1>4, <1>5, <1>7, <1>8 DEF WideEntries, e0

\* MergeArray returns an array of the same places.
LEMMA MergedDomain ==
    ASSUME NEW I, NEW into, DOMAIN into = I, NEW from, NEW unit, NEW new, new = MergeArray(into, from, unit)
    PROVE  DOMAIN new = I /\ new = [i \in I |-> new[i]]
<1> DEFINE same(j) == OfPeriod(from, Period(unit, into[j].date), unit)
           F(j) == [into[j] EXCEPT
                      !.sum = FoldFunctionOnSet(LAMBDA e, sum : AddSum(sum, e.sum), @, from, same(j)),
                      !.date = Min({@} \cup {from[i].date : i \in same(j)})]
<1>1. new = [j \in I |-> F(j)]
  BY DEF MergeArray
<1> HIDE DEF F
<1> QED BY <1>1

\* An array is laid out: its entries have the dates and are empty.
LaidOut(array, dates) ==
    \A i \in DOMAIN array :
        array[i].date = dates[i] /\ array[i].sum = ZeroSum /\ array[i].used = TRUE

\* Each entry of an array is in use, of the period of its date in dates, and
\* holds what r and s hold of that period.
Added(array, dates, r, s, unit) ==
    \A i \in DOMAIN array :
        /\ array[i].used = TRUE /\ Period(unit, array[i].date) = Period(unit, dates[i])
        /\ InKiB(array[i].sum) = Plus(SumOf(r, Period(unit, dates[i]), unit),
                                     SumOf(s, Period(unit, dates[i]), unit))

\* Two merges into an array of empty entries: each has what the two others hold
\* of its period.
LEMMA MergedTwice ==
    ASSUME NEW I, IsFiniteSet(I), NEW dates \in [I -> Int], NEW unit,
           NEW r \in [I -> DayEntries], NEW s \in [I -> DayEntries],
           NEW into \in [I -> WideEntries],
           LaidOut(into, dates),
           NEW both, both = MergeArray(MergeArray(into, r, unit), s, unit)
    PROVE  both \in [I -> WideEntries] /\ Added(both, dates, r, s, unit)
<1> DEFINE P(i) == Period(unit, dates[i])  new == MergeArray(into, r, unit)
<1>1. new = MergeArray(into, r, unit) /\ both = MergeArray(new, s, unit)
  OBVIOUS
<1>2. \A i \in I : into[i].used /\ into[i].sum = ZeroSum /\ Period(unit, into[i].date) = P(i)
  BY DEF LaidOut
<1>3. ASSUME NEW array \in [I -> DayEntries], NEW p PROVE SumOf(array, p, unit) \in KiB
  <2>1. array \in [I -> WideEntries]
    BY WideSum
  <2>2. OfPeriod(array, p, unit) \in SUBSET I
    BY DEF OfPeriod
  <2>3. IsFiniteSet(OfPeriod(array, p, unit)) /\ \A i \in I : HeldBy(array, I)[i] \in KiB
    BY <2>1, <2>2, FS_Subset, WideSum DEF HeldBy, WideEntries
  <2> QED BY <2>1, <2>2, <2>3, SumOfIs, SumFacts
<1> HIDE DEF P, new
<1>4. \A i \in I : /\ new[i] \in WideEntries /\ Period(unit, new[i].date) = P(i) /\ new[i].used = TRUE
                   /\ InKiB(new[i].sum) = Plus(InKiB(ZeroSum), SumOf(r, P(i), unit))
  BY <1>1, <1>2, MergeArrayIs
<1>5. new \in [I -> WideEntries]
  <2>1. DOMAIN new = I /\ new = [i \in I |-> new[i]]
    BY <1>1, MergedDomain
  <2> QED BY <1>4, <2>1
<1>6. ASSUME NEW i \in I
      PROVE  /\ both[i] \in WideEntries /\ Period(unit, both[i].date) = P(i) /\ both[i].used = TRUE
             /\ InKiB(both[i].sum) = Plus(InKiB(new[i].sum), SumOf(s, P(i), unit))
  <2> DEFINE q == P(i)
  <2>1. q = Period(unit, new[i].date) /\ new[i].used = TRUE
    BY <1>4
  <2> HIDE DEF q
  <2>2. /\ both[i] \in WideEntries /\ Period(unit, both[i].date) = q /\ both[i].used = new[i].used
        /\ InKiB(both[i].sum) = Plus(InKiB(new[i].sum), SumOf(s, q, unit))
    BY <1>1, <1>5, <2>1, MergeArrayIs
  <2> QED BY <2>1, <2>2 DEF q
<1>7. both \in [I -> WideEntries]
  <2>1. DOMAIN both = I /\ both = [i \in I |-> both[i]]
    BY <1>1, <1>5, MergedDomain
  <2> QED BY <1>6, <2>1
<1>8. ASSUME NEW i \in I PROVE InKiB(both[i].sum) = Plus(SumOf(r, P(i), unit), SumOf(s, P(i), unit))
  BY <1>3, <1>4, <1>6, Empty
<1>9. DOMAIN both = I
  BY <1>7
<1> QED BY <1>6, <1>7, <1>8, <1>9 DEF P, Added

\* Trimmed takes no more than empty entries out of use.
LEMMA TrimmedIs ==
    ASSUME NEW I \in SUBSET Int, NEW array \in [I -> WideEntries], \A i \in I : array[i].used = TRUE
    PROVE  /\ Trimmed(array) \in [I -> WideEntries]
           /\ \A i \in I :
                /\ Trimmed(array)[i].date = array[i].date /\ Trimmed(array)[i].sum = array[i].sum
                /\ Trimmed(array)[i].used \/ array[i].sum = ZeroSum
<1> DEFINE trimmed == Trimmed(array)
<1>1. ASSUME NEW i \in I
      PROVE  /\ trimmed[i] \in WideEntries
             /\ trimmed[i].date = array[i].date /\ trimmed[i].sum = array[i].sum
             /\ trimmed[i].used \/ array[i].sum = ZeroSum
  <2> DEFINE e == array[i]  f == [e EXCEPT !.used = FALSE]
             empty == \A j \in I : j >= i => array[j].sum = ZeroSum
  <2>1. trimmed[i] = IF empty THEN f ELSE e
    BY DEF Trimmed
  <2>2. empty => e.sum = ZeroSum
    <3>1. i >= i
      OBVIOUS
    <3> QED BY <3>1
  <2>3. e \in [date : Int, sum : WideSums, used : BOOLEAN] /\ e.used = TRUE
    BY DEF WideEntries
  <2> HIDE DEF e, empty, trimmed
  <2>4. f \in [date : Int, sum : WideSums, used : BOOLEAN] /\ f.date = e.date /\ f.sum = e.sum
    BY <2>3
  <2> HIDE DEF f
  <2>5. /\ trimmed[i] \in WideEntries /\ trimmed[i].date = e.date /\ trimmed[i].sum = e.sum
        /\ trimmed[i].used \/ e.sum = ZeroSum
    BY <2>1, <2>2, <2>3, <2>4 DEF WideEntries
  <2> QED BY <2>5 DEF e
<1>2. trimmed = [i \in I |-> trimmed[i]]
  BY DEF Trimmed
<1> HIDE DEF trimmed
<1>3. trimmed \in [I -> WideEntries]
  BY <1>1, <1>2
<1> QED BY <1>1, <1>3 DEF trimmed

\* The sum over a period that one entry alone is of.
LEMMA SumOfOne ==
    ASSUME NEW I, IsFiniteSet(I), NEW array \in [I -> WideEntries], NEW unit, NEW k \in I, NEW p,
           \A i \in I : Period(unit, array[i].date) = p <=> i = k,
           array[k].used \/ array[k].sum = ZeroSum
    PROVE  SumOf(array, p, unit) = InKiB(array[k].sum)
<1> DEFINE v == HeldBy(array, I)
<1>1. OfPeriod(array, p, unit) = IF array[k].used THEN {k} ELSE {}
  BY DEF OfPeriod
<1>2. v[k] = InKiB(array[k].sum) /\ v[k] \in KiB
  BY WideSum DEF HeldBy, WideEntries
<1>3. Sum(v, {}) = Zero /\ Sum(v, {k}) = v[k]
  <2> HIDE DEF v
  <2>1. IsFiniteSet({}) /\ IsFiniteSet({k}) /\ {k} \ {k} = {}
    BY FS_EmptySet, FS_Singleton
  <2>2. Sum(v, {}) = Zero
    BY <2>1, SumFacts
  <2>3. Sum(v, {k}) = Plus(v[k], Sum(v, {k} \ {k}))
    BY <1>2, <2>1, SumFacts
  <2> QED BY <1>2, <2>1, <2>2, <2>3, Empty
<1>4. SumOf(array, p, unit) = Sum(v, OfPeriod(array, p, unit))
  BY SumOfIs
<1> HIDE DEF v
<1> QED BY <1>1, <1>2, <1>3, <1>4, Empty

\* The same, of a period that one entry alone is of.
LEMMA MergedAt ==
    ASSUME NEW I, IsFiniteSet(I), NEW dates \in [I -> Int], NEW unit,
           NEW r \in [I -> DayEntries], NEW s \in [I -> DayEntries],
           NEW k \in I, NEW p, \A i \in I : Period(unit, dates[i]) = p <=> i = k,
           NEW both \in [I -> WideEntries], Added(both, dates, r, s, unit),
           NEW trimmed \in [I -> WideEntries],
           \A i \in I : /\ trimmed[i].date = both[i].date /\ trimmed[i].sum = both[i].sum
                        /\ trimmed[i].used \/ both[i].sum = ZeroSum
    PROVE  SumOf(trimmed, p, unit) = Plus(SumOf(r, p, unit), SumOf(s, p, unit))
<1>1. \A i \in I : Period(unit, trimmed[i].date) = p <=> i = k
  BY DEF Added
<1>2. trimmed[k].used \/ trimmed[k].sum = ZeroSum
  OBVIOUS
<1>3. SumOf(trimmed, p, unit) = InKiB(trimmed[k].sum)
  BY <1>1, <1>2, SumOfOne
<1>4. Period(unit, dates[k]) = p
  OBVIOUS
<1> QED BY <1>3, <1>4 DEF Added

\* The index sets of arrays.
Indices == {0..(n - 1) : n \in Nat}

\* An array of empty entries, with the periods apart, to which two others are
\* added, holds of each period what the two hold.
LEMMA MergedArrays ==
    ASSUME NEW I \in Indices, NEW dates \in [I -> Int], NEW unit,
           NEW r \in [I -> DayEntries], NEW s \in [I -> DayEntries],
           NEW k \in I, NEW p, \A i \in I : Period(unit, dates[i]) = p <=> i = k,
           NEW into \in [I -> WideEntries],
           LaidOut(into, dates),
           NEW both, both = MergeArray(MergeArray(into, r, unit), s, unit)
    PROVE  SumOf(Trimmed(both), p, unit) = Plus(SumOf(r, p, unit), SumOf(s, p, unit))
<1> DEFINE trimmed == Trimmed(both)
<1>1. I \in SUBSET Int
  BY DEF Indices
<1>2. IsFiniteSet(I)
  <2>1. PICK n \in Nat : I = 0..(n - 1)
    BY DEF Indices
  <2>2. 0 \in Int /\ n - 1 \in Int
    OBVIOUS
  <2>3. IsFiniteSet(0..(n - 1))
    BY ONLY <2>2, FS_Interval
  <2> QED BY <2>1, <2>3
<1>3. both \in [I -> WideEntries] /\ Added(both, dates, r, s, unit)
  BY <1>2, MergedTwice
<1>4. /\ trimmed \in [I -> WideEntries]
      /\ \A i \in I : /\ trimmed[i].date = both[i].date /\ trimmed[i].sum = both[i].sum
                      /\ trimmed[i].used \/ both[i].sum = ZeroSum
  <2>1. \A i \in I : both[i].used = TRUE
    BY <1>3 DEF Added
  <2> QED BY <1>1, <1>3, <2>1, TrimmedIs
<1> HIDE DEF trimmed
<1>5. SumOf(trimmed, p, unit) = Plus(SumOf(r, p, unit), SumOf(s, p, unit))
  BY <1>2, <1>3, <1>4, MergedAt
<1> QED BY <1>5 DEF trimmed

\* The date of entry i of the days that are laid out is i days ago.
LEMMA DaysBack ==
    ASSUME NEW i \in Int, now \in Moments PROVE DayOf(now - i * DayLength) = DayOf(now) - i
<1> DEFINE L == DayLength  D == DayOf(now)  r == now % L
<1>1. L \in Nat \ {0} /\ D \in Nat /\ r \in 0..(L - 1) /\ now = L * D + r
  BY MinutesOfDay
<1> HIDE DEF L, D, r
<1>2. i * L \in Int /\ L * D \in Int /\ L * (D - i) = L * D - i * L
  BY <1>1
<1>3. now - i * L = L * (D - i) + r /\ now - i * L \in Int /\ D - i \in Int
  BY <1>1, <1>2
<1>4. D - i = (now - i * L) \div L
  BY <1>1, <1>3, DivUnique
<1> QED BY <1>4 DEF L, D, DayOf

\* If every month has the day that it is, that of entry i of the months that
\* are laid out is the same day, i months ago.
LEMMA MonthsBack ==
    ASSUME now \in Moments, MonthPeriod(now) >= NMonths - 1, SameDayExists, NEW i \in Months
    PROVE  MonthDates[i] \in Nat /\ MonthPeriod(MonthDates[i]) = MonthPeriod(now) - i
<1> DEFINE P == MonthPeriod(now)  md == tm_mday(now)  L == DayLength
           Back(j) == /\ MonthDates[j] \in Nat /\ DayOf(MonthDates[j]) \in Covered
                      /\ MonthPeriod(MonthDates[j]) = P - j /\ tm_mday(MonthDates[j]) = md
           Bad == {j \in Months : ~Back(j)}
<1>1. /\ L \in Nat \ {0} /\ now \in Nat /\ DayOf(now) \in Covered
      /\ P \in 0..(Last - 1) /\ Last \in Nat /\ md \in Nat \ {0}
  <2>1. L \in Nat \ {0} /\ now \in Nat /\ DayOf(now) \in Covered
    BY MinutesOfDay
  <2>2. P \in 0..(Last - 1) /\ md \in 1..MonthLength[P + 1] /\ Last \in Nat
    BY <2>1, MdayType, FirstDays DEF MonthPeriod, tm_mday
  <2>3. P + 1 \in 1..Last
    BY <2>2
  <2>4. MonthLength[P + 1] \in Nat
    BY <2>3, FirstDays
  <2> QED BY <2>1, <2>2, <2>4
<1>2. Months = 0..(NMonths - 1) /\ NMonths \in Nat
  BY MonthSizes DEF Months
<1> HIDE DEF P, md, L
<1>3. ASSUME NEW j \in Bad, \A m \in Bad : j <= m PROVE FALSE
  <2>1. CASE j = 0
    <3>1. MonthDates[0] = now
      BY DatesOfMonths
    <3>2. P - 0 = P
      BY <1>1
    <3> QED BY <1>1, <1>3, <2>1, <3>1, <3>2 DEF P, md
  <2>2. CASE j # 0
    <3> DEFINE t == MonthDates[j - 1]  q == P - j  day == FirstDay[q] + md - 1  r == t % L
    <3>1. j \in Nat /\ j - 1 \in Months /\ j \in 1..(NMonths - 1) /\ ~(j <= j - 1)
      BY <1>2, <1>3, <2>2
    <3>2. Back(j - 1)
      <4> HIDE DEF Back
      <4> QED BY <1>3, <3>1
    <3>3. MonthDates[j] = mktime(MonthPeriod(t) - 1, md, t)
      BY <1>3, <2>2, <3>2, DatesOfMonths DEF Before, MonthPeriod
    <3>4. MonthPeriod(t) - 1 = q /\ t \in Nat
      BY <1>1, <3>1, <3>2
    <3>5. q \in 0..(Last - 1) /\ q \in 0..Last /\ q + 1 \in 1..Last /\ (q + 1) - 1 = q
      BY <1>1, <1>2, <3>1 DEF P
    <3>6. md <= MonthLength[q + 1]
      BY <3>1 DEF SameDayExists, P, md
    <3>7. /\ FirstDay[q] \in Nat /\ FirstDay[q + 1] = FirstDay[q] + MonthLength[q + 1]
          /\ MonthLength[q + 1] \in Nat
      BY <3>5, FirstDays
    <3>8. day \in Nat /\ FirstDay[q] <= day /\ day < FirstDay[q + 1]
      BY <1>1, <3>6, <3>7
    <3>9. day \in Covered /\ InMonth(day, q)
      <4>1. FirstDay[q + 1] <= FirstDay[Last] /\ FirstDay[q + 1] \in Nat /\ FirstDay[Last] \in Nat
        <5>1. Last \in 0..Last /\ q + 1 \in 0..Last /\ (q + 1 = Last \/ q + 1 < Last)
          BY <1>1, <3>5
        <5> QED BY <5>1, FirstDays, Increasing
      <4>2. day <= FirstDay[Last] - 1
        BY <3>8, <4>1
      <4> QED BY <3>5, <3>8, <4>1, <4>2 DEF Covered, InMonth
    <3>10. MonthOf[day] = q
      BY <3>9, MonthUnique
    <3>11. r \in 0..(L - 1)
      BY <1>1, <3>4, DivModNat
    <3>12. MonthDates[j] = day * L + r
      BY <3>3, <3>4 DEF mktime, L
    <3> HIDE DEF day, r
    <3>13. MonthDates[j] \in Nat /\ MonthDates[j] = L * day + r
      BY <1>1, <3>8, <3>11, <3>12
    <3>14. DayOf(MonthDates[j]) = day
      <4>1. MonthDates[j] \in Int /\ day \in Int
        BY <3>8, <3>13
      <4>2. day = MonthDates[j] \div L
        BY <1>1, <3>11, <3>13, <4>1, DivUnique
      <4> QED BY <4>2 DEF DayOf, L
    <3>15. mday(day) = md
      <4>1. mday(day) = day - FirstDay[q] + 1
        BY <3>10 DEF mday
      <4> QED BY <1>1, <3>7, <4>1 DEF day
    <3>16. Back(j)
      BY <3>9, <3>10, <3>13, <3>14, <3>15 DEF MonthPeriod, tm_mday
    <3> QED BY <1>3, <3>16
  <2> QED BY <2>1, <2>2
<1>4. Bad = {}
  <2>1. Bad \in SUBSET Nat
    BY <1>2
  <2> HIDE DEF Bad
  <2> QED BY <1>3, <2>1, Least
<1> QED BY <1>4 DEF P

\* The days and months that are laid out.
LEMMA ArraysLaidOut ==
    ASSUME now \in Moments, NEW I, NEW dates \in [I -> Int],
           NEW array, array = [i \in I |-> [date |-> dates[i], sum |-> ZeroSum, used |-> TRUE]]
    PROVE  array \in [I -> WideEntries] /\ LaidOut(array, dates)
<1>1. \A i \in I : [date |-> dates[i], sum |-> ZeroSum, used |-> TRUE] \in WideEntries
  BY WideSum DEF WideEntries
<1>2. array \in [I -> WideEntries]
  BY <1>1
<1> QED BY <1>2 DEF LaidOut

\* The days of the merge of two records.
LEMMA DaysMerged ==
    ASSUME now \in Moments, NEW r \in Records, NEW s \in Records,
           NEW p \in (DayOf(now) - NDays + 1)..DayOf(now)
    PROVE  SumOf(mergedb(r, s).day, p, "day") = Plus(SumOf(r.day, p, "day"), SumOf(s.day, p, "day"))
<1> DEFINE dates == [i \in Index |-> now - i * DayLength]  k == DayOf(now) - p
           into == emptydb.day  both == MergeArray(MergeArray(into, r.day, "day"), s.day, "day")
<1>1. DayOf(now) \in Nat /\ DayLength \in Nat /\ now \in Nat /\ NDays \in Nat /\ Index = 0..(NDays - 1)
  BY MinutesOfDay, CalendarAssumption DEF Index
<1>2. k \in Index /\ Index \in Indices
  BY <1>1 DEF Indices
<1>3. dates \in [Index -> Int]
  BY <1>1
<1>4. \A i \in Index : Period("day", dates[i]) = p <=> i = k
  <2>1. ASSUME NEW i \in Index PROVE Period("day", dates[i]) = DayOf(now) - i /\ i \in Int
    BY <1>1, DaysBack DEF Period
  <2> QED BY <1>1, <2>1
<1>5. into = [i \in Index |-> [date |-> dates[i], sum |-> ZeroSum, used |-> TRUE]]
  BY DEF emptydb, Index
<1> HIDE DEF dates, k, into
<1>6. into \in [Index -> WideEntries] /\ LaidOut(into, dates)
  BY <1>3, <1>5, ArraysLaidOut
<1>7. r.day \in [Index -> DayEntries] /\ s.day \in [Index -> DayEntries]
  BY RecordParts, SumsAre DEF Entries, DayEntries, Moments
<1>8. mergedb(r, s).day = Trimmed(both)
  BY DEF mergedb, cleanmerged, mergewith, into
<1>9. SumOf(Trimmed(both), p, "day") = Plus(SumOf(r.day, p, "day"), SumOf(s.day, p, "day"))
  BY <1>2, <1>3, <1>4, <1>6, <1>7, MergedArrays
<1> QED BY <1>8, <1>9

\* The months of the merge of two records.
LEMMA MonthsMerged ==
    ASSUME now \in Moments, MonthPeriod(now) >= NMonths - 1, SameDayExists,
           NEW r \in Records, NEW s \in Records,
           NEW p \in (MonthPeriod(now) - NMonths + 1)..MonthPeriod(now)
    PROVE  SumOf(mergedb(r, s).month, p, "month") =
              Plus(SumOf(r.month, p, "month"), SumOf(s.month, p, "month"))
<1> DEFINE dates == [i \in Months |-> MonthDates[i]]  k == MonthPeriod(now) - p
           into == emptydb.month
           both == MergeArray(MergeArray(into, r.month, "month"), s.month, "month")
<1>1. MonthPeriod(now) \in Nat /\ NMonths \in Nat /\ Months = 0..(NMonths - 1)
  <2>1. DayOf(now) \in Covered
    BY MinutesOfDay
  <2> QED BY <2>1, MdayType, FirstDays, MonthSizes DEF MonthPeriod, Months
<1>2. k \in Months /\ Months \in Indices
  BY <1>1 DEF Indices
<1>3. dates \in [Months -> Int]
  BY MonthsBack
<1>4. \A i \in Months : Period("month", dates[i]) = p <=> i = k
  <2>1. ASSUME NEW i \in Months PROVE Period("month", dates[i]) = MonthPeriod(now) - i /\ i \in Int
    BY <1>1, MonthsBack DEF Period
  <2> QED BY <1>1, <2>1
<1>5. into = [i \in Months |-> [date |-> dates[i], sum |-> ZeroSum, used |-> TRUE]]
  BY DEF emptydb, Months
<1> HIDE DEF dates, k, into
<1>6. into \in [Months -> WideEntries] /\ LaidOut(into, dates)
  BY <1>3, <1>5, ArraysLaidOut
<1>7. r.month \in [Months -> DayEntries] /\ s.month \in [Months -> DayEntries]
  BY RecordParts
<1>8. mergedb(r, s).month = Trimmed(both)
  BY DEF mergedb, cleanmerged, mergewith, into
<1>9. SumOf(Trimmed(both), p, "month") = Plus(SumOf(r.month, p, "month"), SumOf(s.month, p, "month"))
  BY <1>2, <1>3, <1>4, <1>6, <1>7, MergedArrays
<1> QED BY <1>8, <1>9

\* Enough months have begun since the epoch for an array of them.
MergeInv == TypeOK /\ MonthPeriod(now) >= NMonths - 1

LEMMA MergeNext == MergeInv /\ [Next]_vars => MergeInv'
<1> SUFFICES ASSUME MergeInv, [Next]_vars PROVE MergeInv'
  OBVIOUS
<1>1. TypeOK' /\ now \in Moments /\ now' \in Moments /\ now <= now'
  <2>1. TypeOK' /\ now \in Moments /\ now' \in Moments
    BY TypeNext DEF MergeInv, TypeOK, Moments
  <2>2. now' = now \/ now' > now
    BY DEF Next, Tick, Pass, Touch, ClearTop, Retire, vars
  <2> QED BY <2>1, <2>2, CalendarAssumption DEF Moments
<1>2. DayOf(now) \in Covered /\ DayOf(now') \in Covered
  BY <1>1, MinutesOfDay
<1>3. DayOf(now) <= DayOf(now')
  <2>1. now \in Int /\ now' \in Int /\ DayLength \in Nat \ {0}
    BY <1>1, MinutesOfDay
  <2> QED BY <1>1, <2>1, DivMonotone DEF DayOf
<1>4. MonthOf[DayOf(now)] <= MonthOf[DayOf(now')]
  BY <1>2, <1>3, MonthOfDay, MonthsInOrder
<1>5. MonthOf[DayOf(now)] \in Int /\ MonthOf[DayOf(now')] \in Int /\ NMonths - 1 \in Int
  BY <1>2, MdayType, FirstDays, MonthSizes
<1>6. MonthOf[DayOf(now')] >= NMonths - 1
  BY <1>4, <1>5 DEF MergeInv, MonthPeriod
<1> QED BY <1>1, <1>6 DEF MergeInv, MonthPeriod

(***************************************************************************)
(* The merge of two records (dbmerge.c) is, in total, day by day and, when *)
(* every month it lays out has today's day of the month, month by month,   *)
(* the sum of the two.  The first database is created when as many months  *)
(* have begun since the epoch as an array has.                             *)
(***************************************************************************)
THEOREM MergeExactAlways ==
    ASSUME \A t \in Starts : MonthOf[DayOf(t)] >= NMonths - 1 PROVE Spec => []MergeExact
<1>1. Init => MergeInv
  BY TypeInit DEF Init, MergeInv, MonthPeriod
<1>2. MergeInv => MergeExact
  <2> SUFFICES ASSUME MergeInv, retired # NoRecord PROVE MergeExact
    BY DEF MergeExact
  <2>1. now \in Moments /\ data \in Records /\ retired \in Records
    BY DEF MergeInv, TypeOK, Moments
  <2> DEFINE merged == mergedb(data, retired)
  <2>2. InKiB(merged.total) = Plus(InKiB(data.total), InKiB(retired.total))
    <3>1. data.total \in WideSums /\ retired.total \in WideSums /\ ZeroSum \in WideSums
      BY <2>1, RecordsAre, SumsAre, WideSum
    <3>2. merged.total = AddSum(AddSum(ZeroSum, data.total), retired.total)
      BY DEF mergedb, cleanmerged, mergewith, emptydb
    <3> HIDE DEF merged
    <3>3. InKiB(merged.total) = Plus(Plus(InKiB(ZeroSum), InKiB(data.total)), InKiB(retired.total))
      BY <3>1, <3>2, WideSum
    <3>4. InKiB(data.total) \in KiB
      BY <3>1, WideSum
    <3> QED BY <3>3, <3>4, Empty
  <2>3. ASSUME NEW p \in (DayOf(now) - NDays + 1)..DayOf(now)
        PROVE  SumOf(merged.day, p, "day") = Plus(SumOf(data.day, p, "day"), SumOf(retired.day, p, "day"))
    BY <2>1, <2>3, DaysMerged
  <2>4. ASSUME SameDayExists, NEW p \in (MonthPeriod(now) - NMonths + 1)..MonthPeriod(now)
        PROVE  SumOf(merged.month, p, "month") =
                  Plus(SumOf(data.month, p, "month"), SumOf(retired.month, p, "month"))
    BY <2>1, <2>4, MonthsMerged DEF MergeInv
  <2> HIDE DEF merged
  <2>5. LET m == merged IN
        /\ InKiB(m.total) = Plus(InKiB(data.total), InKiB(retired.total))
        /\ \A p \in (DayOf(now) - NDays + 1)..DayOf(now) :
              SumOf(m.day, p, "day") = Plus(SumOf(data.day, p, "day"), SumOf(retired.day, p, "day"))
        /\ SameDayExists =>
              \A p \in (MonthPeriod(now) - NMonths + 1)..MonthPeriod(now) :
                 SumOf(m.month, p, "month") =
                    Plus(SumOf(data.month, p, "month"), SumOf(retired.month, p, "month"))
    BY <2>2, <2>3, <2>4
  <2> QED BY <2>5 DEF MergeExact, merged
<1> QED BY <1>1, <1>2, MergeNext, PTL DEF Spec
=============================================================================
