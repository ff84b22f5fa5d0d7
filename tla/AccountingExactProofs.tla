------------------------ MODULE AccountingExactProofs ------------------------
(***************************************************************************)
(* Proofs about AccountingExact, for every width of the counters, every    *)
(* limit, every size of traffic bursts and every length of history.        *)
(*                                                                         *)
(* A wrap costs bytes more than once: countercalc takes the counter to     *)
(* have one value less than it has, and when the update after the wrap     *)
(* sets currx back below zero, every update while it stays there loses one *)
(* more.  The invariant therefore keeps, for each copy of the record, a    *)
(* reserve: what later updates may still lose on account of a wrap.        *)
(***************************************************************************)
EXTENDS AccountingExact, AccountingProofs

\* Bytes that updates may still lose when currx reads a and the counter b.
Reserve(a, b) ==
    IF a <= b THEN 0 ELSE IF FP64 - a < K - 1 THEN FP64 - a ELSE K - 1

\* Of the bytes that passed, record d lacks no more than its next update finds
\* and the wraps have cost so far, given the counters k.
ExactIn(d, k, t, w) ==
    \A dir \in Dir :
        t[dir] + Reserve(d.curr[dir], k[dir])
            <= Bytes(d, dir) + countercalc(d.curr[dir], k[dir]) + K * w[dir]

Exact(d) == d.active /\ d.btime >= boot /\ ExactIn(d, kernel, truth, wraps)

\* The inductive invariant.
CalmInv ==
    /\ present /\ ~sync
    /\ Exact(file)
    /\ cache # NoData => up /\ Exact(cache)

-----------------------------------------------------------------------------
\* A reserve never exceeds what one wrap is charged.
LEMMA ReserveType ==
    ASSUME NEW a \in Word64, NEW b \in Word64
    PROVE  Reserve(a, b) \in 0..(K - 1)
  BY Constants DEF Reserve, Word64

\* n bytes are n more for the next update to find, unless the counter wraps,
\* which costs it one.  That needs 64 bit counters more than twice as large as
\* 32 bit ones, for the width of a wrap is guessed from the value before it.
LEMMA TrafficExact ==
    ASSUME KernelMax = FP64 => 2 * FP32 <= FP64,
           NEW a \in Word64, NEW b \in 0..KernelMax, NEW n \in 1..KernelMax,
           countercalc(a, b) + n < FP32
    PROVE  /\ b + n <= KernelMax =>
                /\ countercalc(a, b + n) = countercalc(a, b) + n
                /\ Reserve(a, b + n) = Reserve(a, b)
           /\ b + n > KernelMax =>
                countercalc(a, b + n - KernelMax - 1) = countercalc(a, b) + n - 1
<1>1. CASE a <= b
  BY <1>1, Constants DEF countercalc, Reserve, Word64
<1>2. CASE b < a
  <2>1. b + n < a /\ b + n <= KernelMax
    BY <1>2, Constants DEF countercalc, Word64
  <2> QED BY <1>2, <2>1, Constants DEF countercalc, Reserve, Word64
<1> QED BY <1>1, <1>2, Constants DEF Word64

\* Setting currx back by the r bytes that do not fill a KiB leaves them for the
\* next update, or all but one of them if the counter is less than r, and then
\* the reserve has one less to last for.
LEMMA ResidueExact ==
    ASSUME NEW a \in Word64, NEW b \in 0..KernelMax, NEW r \in 0..(K - 1),
           r <= countercalc(a, b)
    PROVE  r + Reserve(U64(b - r), b) <= countercalc(U64(b - r), b) + Reserve(a, b)
<1>0. b \in Word64 /\ r \in Word64
  BY Constants DEF Word64
<1>1. CASE r <= b
  <2>1. U64(b - r) = b - r
    BY <1>0, <1>1, U64Fits, Constants DEF Word64
  <2>2. countercalc(b - r, b) = r /\ Reserve(b - r, b) = 0
    BY <1>0, <1>1, Constants DEF countercalc, Reserve, Word64
  <2>3. Reserve(a, b) \in Nat
    BY <1>0, ReserveType
  <2> QED BY <1>0, <2>1, <2>2, <2>3
<1>2. CASE b < r
  <2>1. U64(b - r) = FP64 + 1 - (r - b)
    BY <1>0, <1>2, U64Wraps, Constants
  <2>2. countercalc(FP64 + 1 - (r - b), b) = r - 1
    BY <1>0, <1>2, Constants DEF countercalc, Word64
  <2>3. Reserve(FP64 + 1 - (r - b), b) = r - b - 1
    BY <1>0, <1>2, Constants DEF Reserve, Word64
  <2>4. Reserve(a, b) >= r - b
    BY <1>0, <1>2, Constants DEF countercalc, Reserve, Word64
  <2>5. Reserve(a, b) \in Nat
    BY <1>0, ReserveType
  <2> QED BY <1>0, <2>1, <2>2, <2>3, <2>4, <2>5
<1> QED BY <1>0, <1>1, <1>2, Constants DEF Word64

-----------------------------------------------------------------------------
\* What an exact record lacks is due.
LEMMA ExactDue ==
    ASSUME IInv, present, NEW d, Good(d), Exact(d), NEW dir \in Dir
    PROVE  /\ Due(d, dir) = countercalc(d.curr[dir], kernel[dir])
           /\ d.curr[dir] \in Word64 /\ kernel[dir] \in 0..KernelMax /\ kernel[dir] \in Word64
           /\ Due(d, dir) \in Nat /\ Bytes(d, dir) \in Nat
           /\ truth[dir] \in Nat /\ wraps[dir] \in Nat /\ K * wraps[dir] \in Nat
<1>1. d \in Data /\ boot \in Nat /\ kernel \in [Dir -> 0..KernelMax]
      /\ truth[dir] \in Nat /\ wraps[dir] \in Nat
  BY DEF Good, GoodIn, IInv, Machine
<1>2. d.curr[dir] \in Word64 /\ d.btime \in Nat /\ kernel[dir] \in Word64
  BY <1>1, Constants DEF Data, Word64
<1>3. Due(d, dir) = countercalc(d.curr[dir], kernel[dir])
  BY <1>1, <1>2 DEF Due, Exact
<1>4. countercalc(d.curr[dir], kernel[dir]) \in Nat
  BY <1>2, CounterCalcType, WordIsNat
<1> QED BY <1>1, <1>2, <1>3, <1>4, BytesType, Constants

\* An update that counts credits all that is due, and keeps the record exact.
LEMMA UpdateExact ==
    ASSUME IInv, present, NEW d, Good(d), Exact(d), NEW bt \in Btimes, Counts(d, bt)
    PROVE  Exact(parseifinfo(d, bt))
<1> DEFINE e == parseifinfo(d, bt)
<1>1. d \in Data /\ BootOK(d, boot) /\ boot \in Nat /\ bt \in Nat /\ boot <= bt
  BY Constants DEF Good, GoodIn, IInv, Machine, Btimes
<1>2. e.active /\ e.btime >= boot
  BY <1>1 DEF parseifinfo, Exact
<1>3. ~Booted(d, bt)
  BY <1>1, BootedExactly DEF Exact, Data, Word64
<1>4. ASSUME NEW dir \in Dir
      PROVE  truth[dir] + Reserve(e.curr[dir], kernel[dir])
               <= Bytes(e, dir) + countercalc(e.curr[dir], kernel[dir]) + K * wraps[dir]
  <2> DEFINE a == d.curr[dir]  b == kernel[dir]  cc == countercalc(a, b)  r == BytePart(cc)
             old == Bytes(d, dir)  new == Bytes(e, dir)  c == e.curr[dir]
  <2>1. /\ a \in Word64 /\ b \in 0..KernelMax /\ b \in Word64 /\ cc \in Nat /\ old \in Nat
        /\ truth[dir] \in Nat /\ K * wraps[dir] \in Nat
    BY ExactDue
  <2>2. Credit(d, bt, dir) = cc
    BY <1>3 DEF Credit, Change
  <2>3. c = U64(b - r) /\ e.total[dir] = addtraffic(d.total[dir], MBPart(cc), KBPart(cc))
    BY <2>2 DEF parseifinfo
  <2>4. d.total[dir] \in [mb : Nat, kb : 0..(K - 1)]
    BY <1>1 DEF Data
  <2>5. truth[dir] + Reserve(a, b) <= old + cc + K * wraps[dir]
    BY DEF Exact, ExactIn
  <2> HIDE DEF cc, e
  <2>6. /\ e.total[dir] \in [mb : Nat, kb : 0..(K - 1)] /\ r \in 0..(K - 1)
        /\ new + r = old + cc
    BY <2>1, <2>3, <2>4, CreditTotal DEF Bytes
  <2>7. r <= cc
    <3>1. cc = K * (cc \div K) + r /\ cc \div K \in Nat
      BY <2>1, DivModNat, Constants DEF BytePart
    <3>2. K * (cc \div K) \in Nat
      BY <3>1, Constants
    <3> QED BY <2>1, <2>6, <3>1, <3>2, Constants
  <2>8. new \in Int
    <3>1. e.total[dir].mb * K \in Int
      BY <2>6, Constants
    <3>2. InKB(e.total[dir].mb, e.total[dir].kb) \in Int
      BY <2>6, <3>1, Constants DEF InKB
    <3> QED BY <3>2, Constants DEF Bytes
  <2> HIDE DEF r, old, new
  <2>9. r + Reserve(c, b) <= countercalc(c, b) + Reserve(a, b)
    BY <2>1, <2>3, <2>6, <2>7, ResidueExact DEF cc
  <2>10. c \in Word64
    BY <2>1, <2>3, <2>6, Residue
  <2>11. Reserve(c, b) \in Nat /\ Reserve(a, b) \in Nat /\ countercalc(c, b) \in Nat
    BY <2>1, <2>10, ReserveType, CounterCalcType, WordIsNat
  <2>12. truth[dir] + Reserve(c, b) <= new + countercalc(c, b) + K * wraps[dir]
    BY <2>1, <2>5, <2>6, <2>8, <2>9, <2>11, Constants
  <2> QED BY <2>12 DEF new
<1> QED BY <1>2, <1>4 DEF Exact, ExactIn

\* A save stamps the record, and changes nothing else.
LEMMA WrittenExact ==
    ASSUME IInv, NEW d \in Data, Exact(d)
    PROVE  Exact(Written(d))
<1>1. Written(d) = [curr |-> d.curr, total |-> d.total, lastupdated |-> now,
                    btime |-> d.btime, active |-> d.active, life |-> d.life]
  BY Fields DEF Written
<1> QED BY <1>1 DEF Exact, ExactIn, Bytes

\* Traffic becomes due, and a wrap of the counter is charged for.
LEMMA TrafficKeepsExact ==
    ASSUME IInv, present, KernelMax = FP64 => 2 * FP32 <= FP64,
           NEW dir \in Dir, NEW n \in Bursts[dir], Traffic(dir, n), UpdatedInTime,
           NEW d \in Copies, Good(d), Exact(d)
    PROVE  ExactIn(d, kernel', truth', wraps')
<1>1. /\ kernel \in [Dir -> 0..KernelMax] /\ truth \in [Dir -> Nat] /\ wraps \in [Dir -> Nat]
  BY DEF IInv, Machine
<1>2. n \in 1..KernelMax /\ n \in Nat
  <2>1. Bursts[dir] \in SUBSET (1..KernelMax)
    BY AccountingAssumption
  <2> QED BY <2>1, Constants
<1>3. ASSUME NEW x \in Dir
      PROVE  truth'[x] + Reserve(d.curr[x], kernel'[x])
               <= Bytes(d, x) + countercalc(d.curr[x], kernel'[x]) + K * wraps'[x]
  <2> DEFINE a == d.curr[x]  b == kernel[x]  old == Bytes(d, x)  due == countercalc(a, b)
             kw == K * wraps[x]
  <2>1. /\ Due(d, x) = due /\ a \in Word64 /\ b \in 0..KernelMax /\ b \in Word64
        /\ due \in Nat /\ old \in Nat /\ truth[x] \in Nat /\ wraps[x] \in Nat /\ kw \in Nat
    BY ExactDue
  <2>2. truth[x] + Reserve(a, b) <= old + due + kw
    BY DEF Exact, ExactIn
  <2>3. Reserve(a, b) \in Nat
    BY <2>1, ReserveType
  <2>4. CASE x # dir
    <3>1. kernel'[x] = b /\ truth'[x] = truth[x] /\ wraps'[x] = wraps[x]
      BY <1>1, <2>4 DEF Traffic
    <3> QED BY <2>2, <3>1
  <2>5. CASE x = dir
    <3>1. truth'[x] = truth[x] + n
      BY <1>1, <2>5 DEF Traffic
    <3>2. due + n < FP32
      <4>1. Due(d, x) + (truth'[x] - truth[x]) < FP32
        BY DEF UpdatedInTime
      <4> QED BY <1>2, <2>1, <3>1, <4>1
    <3>3. CASE b + n <= KernelMax
      <4>1. kernel'[x] = b + n /\ wraps'[x] = wraps[x]
        BY <1>1, <1>2, <2>1, <2>5, <3>3, Constants DEF Traffic
      <4>2. countercalc(a, b + n) = due + n /\ Reserve(a, b + n) = Reserve(a, b)
        BY <1>2, <2>1, <3>2, <3>3, TrafficExact
      <4> HIDE DEF a, b, old, due, kw
      <4>3. truth'[x] + Reserve(a, b + n) <= old + countercalc(a, b + n) + kw
        BY <1>2, <2>1, <2>2, <2>3, <3>1, <4>2
      <4> QED BY <4>1, <4>3 DEF a, old, kw
    <3>4. CASE b + n > KernelMax
      <4> DEFINE c == b + n - KernelMax - 1
      <4>1. kernel'[x] = c /\ wraps'[x] = wraps[x] + 1
        BY <1>1, <1>2, <2>1, <2>5, <3>4, Constants DEF Traffic
      <4>2. countercalc(a, c) = due + n - 1
        BY <1>2, <2>1, <3>2, <3>4, TrafficExact
      <4>3. c \in Word64
        BY <1>2, <2>1, <3>4, Constants DEF Word64
      <4>4. Reserve(a, c) \in 0..(K - 1)
        BY <2>1, <4>3, ReserveType
      <4>5. K * wraps'[x] = kw + K
        BY <2>1, <4>1, Constants
      <4> HIDE DEF a, b, c, old, due, kw
      <4>6. truth'[x] + Reserve(a, c) <= old + countercalc(a, c) + (kw + K)
        BY <1>2, <2>1, <2>2, <2>3, <3>1, <4>2, <4>4, Constants
      <4> QED BY <4>1, <4>5, <4>6 DEF a, old
    <3> QED BY <1>2, <2>1, <3>3, <3>4, Constants
  <2> QED BY <2>4, <2>5
<1> QED BY <1>3 DEF ExactIn

\* The calm steps are steps of Accounting.
LEMMA CalmIsNext == [CalmNext]_vars => [Next]_vars
  BY DEF CalmNext, Next, CommandLine

LEMMA CalmInit == Init => CalmInv
<1> SUFFICES ASSUME Init PROVE CalmInv
  OBVIOUS
<1>1. PICK bt \in Btimes : file = NewData(bt)
  BY DEF Init
<1>2. IInv /\ Good(file)
  BY InitIInv DEF IInv
<1>3. bt >= boot /\ boot \in Nat
  BY <1>2, Constants DEF Btimes, IInv, Machine
<1>4. file.active /\ file.btime >= boot
  BY <1>1, <1>3 DEF NewData
<1>5. ASSUME NEW dir \in Dir
      PROVE  truth[dir] + Reserve(file.curr[dir], kernel[dir])
               <= Bytes(file, dir) + countercalc(file.curr[dir], kernel[dir]) + K * wraps[dir]
  <2>1. truth[dir] = 0 /\ wraps[dir] = 0 /\ kernel[dir] = 0 /\ file.curr[dir] = 0
    BY <1>1 DEF Init, Zero, NewData
  <2>2. Bytes(file, dir) \in Nat
    BY <1>2, BytesType DEF Good, GoodIn
  <2>3. Reserve(0, 0) = 0 /\ countercalc(0, 0) = 0 /\ K * 0 = 0
    BY Constants DEF Reserve, countercalc
  <2> QED BY <2>1, <2>2, <2>3
<1>6. Exact(file)
  BY <1>4, <1>5 DEF Exact, ExactIn
<1> QED BY <1>6 DEF Init, CalmInv

\* A step that keeps the machine and makes each copy one of the old ones, or a
\* stamped exact record.
LEMMA CopiesKept ==
    ASSUME CalmInv, UNCHANGED <<boot, kernel, present, truth, wraps>>, ~sync',
           \/ file' = file
           \/ \E d : Exact(d) /\ file' = d,
           \/ cache' = NoData
           \/ up' /\ cache' = cache
           \/ up' /\ \E d : Exact(d) /\ cache' = d
    PROVE  CalmInv'
<1>1. \A d : Exact(d) => Exact(d)'
  BY DEF Exact, ExactIn, Bytes
<1>2. Exact(file') /\ (cache' # NoData => Exact(cache'))
  BY DEF CalmInv
<1>3. Exact(file)' /\ (cache' # NoData => Exact(cache)')
  BY <1>2 DEF Exact, ExactIn, Bytes
<1> QED BY <1>3 DEF CalmInv

LEMMA CalmInvNext ==
    ASSUME KernelMax = FP64 => 2 * FP32 <= FP64, IInv, CalmInv, [CalmNext]_vars
    PROVE  CalmInv'
<1>1. /\ Good(file) /\ file \in Data
      /\ (cache # NoData => Good(cache) /\ cache \in Data)
  BY CurrentGood DEF IInv, Good, GoodIn
<1>2. /\ Good(Current) /\ Exact(Current) /\ Current.active /\ present /\ ~sync
  BY CurrentGood DEF CalmInv, Current, Exact
<1>3. CASE UNCHANGED vars
  BY <1>3, CopiesKept DEF vars, history, CalmInv
<1>4. ASSUME CalmNext, NEW dir \in Dir, NEW n \in Bursts[dir], Traffic(dir, n) PROVE CalmInv'
  <2>1. /\ UNCHANGED <<boot, present, up, sync, cache, file>>
    BY <1>4 DEF Traffic
  <2>2. ExactIn(file, kernel', truth', wraps')
    BY <1>1, <1>2, <1>4, TrafficKeepsExact DEF CalmNext, CalmInv, Copies
  <2>3. cache # NoData => ExactIn(cache, kernel', truth', wraps')
    BY <1>1, <1>2, <1>4, TrafficKeepsExact DEF CalmNext, CalmInv, Copies
  <2>4. Exact(file)' /\ (cache # NoData => Exact(cache)')
    BY <2>1, <2>2, <2>3 DEF CalmInv, Exact, ExactIn, Bytes
  <2> QED BY <2>1, <2>4 DEF CalmInv
<1>5. CASE Tick
  BY <1>5, CopiesKept DEF Tick, history, CalmInv
<1>6. ASSUME CalmNext, Start PROVE CalmInv'
  BY <1>6, CopiesKept DEF Start, history, CalmNext, CalmInv
<1>7. ASSUME CalmNext, Passes PROVE CalmInv'
  <2>1. PICK saved \in BOOLEAN : PassCount(saved)
    BY <1>2, <1>7 DEF Passes, PassSync, PassUnavailable, PassDisabled
  <2>2. PICK bt \in Btimes : Pass(parseifinfo(Current, bt), saved)
    BY <2>1 DEF PassCount
  <2>3. Counts(Current, bt)
    BY <1>7 DEF CalmNext, UpdatesCount
  <2> DEFINE e == parseifinfo(Current, bt)
  <2>4. Exact(e) /\ e \in Data
    BY <1>2, <2>3, UpdateExact, UpdateGood DEF Good, GoodIn
  <2> HIDE DEF e
  <2>5. Exact(Written(e))
    BY <2>4, WrittenExact
  <2>6. /\ cache' = Written(e) /\ (file' = Written(e) \/ file' = file) /\ up' /\ ~sync'
        /\ UNCHANGED <<boot, kernel, present, truth, wraps>>
    BY <1>7, <2>2 DEF Pass, CalmNext, history, e
  <2> QED BY <2>5, <2>6, CopiesKept
<1>8. ~dbcheck
  BY <1>1 DEF dbcheck, CalmInv, Exact, IInv, Machine, Data
<1>9. ASSUME CalmNext, NEW flushed \in BOOLEAN, Hup(flushed) \/ Stop(flushed) PROVE CalmInv'
  <2>1. /\ cache' = NoData /\ ~sync' /\ UNCHANGED <<boot, kernel, present, truth, wraps>>
        /\ (file' = file \/ (file' = Written(cache) /\ cache # NoData))
    BY <1>9 DEF Hup, Stop, history
  <2>2. cache # NoData => Exact(Written(cache))
    BY <1>1, WrittenExact DEF CalmInv
  <2> QED BY <2>1, <2>2, CopiesKept
<1>10. ASSUME CalmNext, CliUpdate PROVE CalmInv'
  <2>1. cache = NoData /\ Current = file
    BY <1>10 DEF CliUpdate, Cli, CalmInv, Current
  <2>2. PICK bt \in Btimes : Cli(parseifinfo(file, bt), FALSE)
    BY <1>10 DEF CliUpdate
  <2>3. Counts(file, bt)
    BY <1>10, <2>1 DEF CalmNext, UpdatesCount
  <2> DEFINE e == parseifinfo(file, bt)
  <2>4. Exact(e) /\ e \in Data
    BY <1>1, <1>2, <2>1, <2>3, UpdateExact, UpdateGood DEF Good, GoodIn
  <2> HIDE DEF e
  <2>5. Exact(Written(e))
    BY <2>4, WrittenExact
  <2>6. /\ cache' = NoData /\ file' = Written(e) /\ ~sync'
        /\ UNCHANGED <<boot, kernel, present, truth, wraps>>
    BY <1>2, <2>1, <2>2 DEF Cli, e
  <2> QED BY <2>5, <2>6, CopiesKept
<1> QED BY <1>3, <1>4, <1>5, <1>6, <1>7, <1>8, <1>9, <1>10 DEF CalmNext, Monitoring, Flushes

\* While nothing entitles vnstat to give up on bytes, whatever mix of crashes,
\* failed saves, restarts from an older file and "vnstat -u" there is, no copy
\* of the record ever lacks more than one KiB for each wrap of a counter.
THEOREM LosslessAlways ==
    ASSUME KernelMax = FP64 => 2 * FP32 <= FP64
    PROVE  CalmSpec => []Lossless
<1>1. Init => IInv /\ CalmInv
  BY InitIInv, CalmInit
<1>2. IInv /\ CalmInv /\ [CalmNext]_vars => (IInv /\ CalmInv)'
  BY CalmIsNext, NextIInv, CalmInvNext
<1>3. IInv /\ CalmInv => Lossless
  <2>1. SUFFICES ASSUME IInv, CalmInv, NEW d \in Copies, NEW dir \in Dir
                 PROVE  truth[dir] <= Bytes(d, dir) + Due(d, dir) + K * wraps[dir]
    BY DEF Lossless
  <2>2. Good(d) /\ Exact(d) /\ present
    BY <2>1, CurrentGood DEF IInv, CalmInv, Copies
  <2>3. /\ Due(d, dir) = countercalc(d.curr[dir], kernel[dir])
        /\ Due(d, dir) \in Nat /\ Bytes(d, dir) \in Nat /\ truth[dir] \in Nat
        /\ K * wraps[dir] \in Nat /\ Reserve(d.curr[dir], kernel[dir]) \in Nat
    BY <2>1, <2>2, ExactDue, ReserveType
  <2>4. truth[dir] + Reserve(d.curr[dir], kernel[dir])
          <= Bytes(d, dir) + countercalc(d.curr[dir], kernel[dir]) + K * wraps[dir]
    BY <2>2 DEF Exact, ExactIn
  <2> QED BY <2>3, <2>4
<1> QED BY <1>1, <1>2, <1>3, PTL DEF CalmSpec

=============================================================================
