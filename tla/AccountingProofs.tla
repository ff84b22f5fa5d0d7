-------------------------- MODULE AccountingProofs --------------------------
(***************************************************************************)
(* Proofs about Accounting, for every width of the counters, every limit,  *)
(* every size of traffic bursts and every length of history.               *)
(*                                                                         *)
(* The inductive invariant says of each copy of the record, whatever path  *)
(* it came by: its boot time tells the present boot from earlier ones, and *)
(* what it claims plus what its next update will add did really pass or is *)
(* within what the slips allow.  A record whose counters are of an earlier *)
(* life is charged for both of the ways the next update may go: comparing  *)
(* them, and counting from zero.                                           *)
(***************************************************************************)
EXTENDS Accounting, CounterLemmas

\* The numbers among the constants.
LEMMA Constants ==
    /\ K \in Nat \ {0} /\ FP32 \in Nat /\ FP64 \in Nat /\ FP32 + K <= FP64
    /\ KernelMax \in {FP32, FP64}
    /\ BVar \in Nat /\ BtimeNoise \in 0..BVar
    /\ FirstBoot \in Nat /\ FirstBoot >= BVar /\ FirstBoot <= MaxNow
    /\ MaxNow \in Nat /\ MaxNow + BtimeNoise <= FP64
    /\ MaxSlips \in Nat /\ K <= FP32
  BY CountersAssumption, AccountingAssumption

Larger(a, b) == IF a >= b THEN a ELSE b

\* The parts of the state that a copy of the record is judged by, as
\* parameters: a step changes the copies, or these, but seldom both.
ClaimIn(d, dir, b, k, p, l) ==
    IF ~p THEN 0
    ELSE IF d.btime < b \/ (~d.active /\ d.life # l) THEN k[dir]
    ELSE IF d.life = l THEN countercalc(d.curr[dir], k[dir])
    ELSE Larger(countercalc(d.curr[dir], k[dir]), k[dir])

BootOK(d, b) ==
    /\ d.btime <= b + BtimeNoise
    /\ d.btime >= b \/ d.btime + BVar < b

\* curr was read from the interface, but for the bytes short of a KiB.
CurrOK(a) == a <= KernelMax \/ FP64 - a < K

\* The record knows of no life to come, and of none that the interface is yet
\* to return with.
LifeOK(d, p, l) == d.life <= l /\ (~p => d.life # l)

GoodIn(d, b, k, p, t, l) ==
    /\ d \in Data
    /\ BootOK(d, b)
    /\ LifeOK(d, p, l)
    /\ \A dir \in Dir : /\ CurrOK(d.curr[dir])
                        /\ Bytes(d, dir) + ClaimIn(d, dir, b, k, p, l) <= t[dir]

\* The most that a record may claim.
Most == [dir \in Dir |-> truth[dir] + Allowance]

Good(d) == GoodIn(d, boot, kernel, present, Most, life)

Machine ==
    /\ now \in Nat /\ boot \in Nat
    /\ FirstBoot <= boot /\ boot <= now /\ now <= MaxNow
    /\ kernel \in [Dir -> 0..KernelMax]
    /\ ~present => kernel = Zero
    /\ present \in BOOLEAN /\ up \in BOOLEAN /\ sync \in BOOLEAN
    /\ truth \in [Dir -> Nat] /\ wraps \in [Dir -> Nat]
    /\ life \in Nat /\ slips \in 0..MaxSlips

IInv ==
    /\ Machine
    /\ Good(file)
    /\ cache = NoData \/ Good(cache)

-----------------------------------------------------------------------------
\* A word is a natural number, for steps that need no bound on it.
LEMMA WordIsNat == \A w \in Word64 : w \in Nat
  BY CountersAssumption DEF Word64

\* A record's claim, and what its next update finds, are natural numbers.
LEMMA BytesType ==
    ASSUME NEW d \in Data, NEW dir \in Dir
    PROVE  Bytes(d, dir) \in Nat
<1>1. d.total[dir].mb \in Nat /\ d.total[dir].kb \in Nat
  BY Constants DEF Data
<1>2. d.total[dir].mb * K \in Nat
  BY <1>1, Constants
<1>3. InKB(d.total[dir].mb, d.total[dir].kb) \in Nat
  BY <1>1, <1>2 DEF InKB
<1> QED BY <1>3, Constants DEF Bytes

\* So is what a record is charged for.
LEMMA ClaimType ==
    ASSUME NEW d \in Data, NEW dir \in Dir, NEW b, NEW p, NEW l,
           NEW k \in [Dir -> 0..KernelMax]
    PROVE  ClaimIn(d, dir, b, k, p, l) \in Nat
<1>1. d.curr[dir] \in Word64 /\ k[dir] \in Word64
  BY Constants DEF Data, Word64
<1>2. countercalc(d.curr[dir], k[dir]) \in Word64
  BY <1>1, CounterCalcType
<1> QED BY <1>1, <1>2 DEF ClaimIn, Larger, Word64

\* What the slips allow is a natural number, and so is the most there may be.
LEMMA MostType ==
    ASSUME Machine
    PROVE  /\ Allowance \in Nat
           /\ Most \in [Dir -> Nat]
           /\ \A dir \in Dir : Most[dir] = truth[dir] + Allowance
<1>1. slips \in Nat /\ KernelMax \in Nat /\ truth \in [Dir -> Nat]
  BY Constants DEF Machine
<1>2. Allowance \in Nat
  BY <1>1 DEF Allowance
<1> QED BY <1>1, <1>2 DEF Most

\* A slip allows for one counter more.
LEMMA SlipMost ==
    ASSUME Machine, NEW h \in BOOLEAN, Slip(h), truth' = truth
    PROVE  /\ slips' \in 0..MaxSlips
           /\ Most' \in [Dir -> Nat]
           /\ \A dir \in Dir :
                 Most'[dir] = IF h THEN Most[dir] + KernelMax ELSE Most[dir]
<1>1. slips \in Nat /\ KernelMax \in Nat /\ truth \in [Dir -> Nat] /\ MaxSlips \in Nat
  BY Constants DEF Machine
<1>2. slips' \in 0..MaxSlips /\ slips' = (IF h THEN slips + 1 ELSE slips)
  BY <1>1 DEF Slip
<1>3. Allowance \in Nat /\ Allowance' = (IF h THEN Allowance + KernelMax ELSE Allowance)
  BY <1>1, <1>2 DEF Allowance
<1> QED BY <1>1, <1>2, <1>3 DEF Most

\* Setting currx back by the r bytes that did not fill a KiB makes the next
\* change at most r larger, even when the counter has just wrapped to less
\* than r and currx becomes huge.
LEMMA Residue ==
    ASSUME NEW b \in 0..KernelMax, NEW r \in 0..(K - 1)
    PROVE  /\ U64(b - r) \in Word64
           /\ countercalc(U64(b - r), b) <= r
           /\ CurrOK(U64(b - r))
<1>0. b \in Word64 /\ r \in Word64
  BY Constants DEF Word64
<1>1. CASE r <= b
  <2>1. U64(b - r) = b - r
    BY <1>0, <1>1, U64Fits, Constants DEF Word64
  <2> QED BY <1>0, <1>1, <2>1, Constants DEF countercalc, Word64, CurrOK
<1>2. CASE b < r
  <2>1. U64(b - r) = FP64 + 1 - (r - b)
    BY <1>0, <1>2, U64Wraps, Constants
  <2> QED BY <1>0, <1>2, <2>1, Constants DEF countercalc, Word64, CurrOK
<1> QED BY <1>0, <1>1, <1>2

\* What is found by comparing with counters of another life exceeds what has
\* passed in this one by at most what one counter holds.
LEMMA Misread ==
    ASSUME NEW a \in Word64, CurrOK(a), NEW b \in 0..KernelMax
    PROVE  countercalc(a, b) <= b + KernelMax
<1>1. CASE b >= a
  BY <1>1, Constants DEF countercalc, Word64
<1>2. CASE b < a /\ KernelMax = FP64
  BY <1>2, Constants DEF countercalc, Word64
<1>3. CASE b < a /\ KernelMax = FP32 /\ a <= FP32
  BY <1>3, Constants DEF countercalc, Word64
<1>4. CASE b < a /\ KernelMax = FP32 /\ a > FP32
  BY <1>4, Constants DEF countercalc, Word64, CurrOK
<1> QED BY <1>1, <1>2, <1>3, <1>4, Constants DEF Word64

\* n bytes of traffic, with or without a wrap of the counter, add at most n
\* to the change that the next update will find.
LEMMA TrafficDue ==
    ASSUME NEW a \in Word64, NEW b \in 0..KernelMax, NEW n \in 1..KernelMax,
           NEW c, c = IF b + n > KernelMax THEN b + n - KernelMax - 1 ELSE b + n
    PROVE  /\ c \in 0..KernelMax
           /\ countercalc(a, c) <= countercalc(a, b) + n
           /\ c <= b + n
<1>1. CASE b + n > KernelMax
  BY <1>1, Constants DEF countercalc, Word64
<1>2. CASE ~(b + n > KernelMax)
  BY <1>2, Constants DEF countercalc, Word64
<1> QED BY <1>1, <1>2

\* The comparison with cfg.bvar tells the present boot from earlier ones.
LEMMA BootedExactly ==
    ASSUME IInv, NEW d \in Data, BootOK(d, boot), NEW bt \in Btimes
    PROVE  Booted(d, bt) <=> d.btime < boot
<1>1. bt \in Nat /\ boot <= bt /\ bt <= boot + BtimeNoise /\ bt - BVar \in Word64
  BY Constants DEF IInv, Machine, Btimes, Word64
<1>2. U64(bt - BVar) = bt - BVar
  BY <1>1, U64Fits
<1>3. d.btime \in Nat /\ boot \in Nat
  BY DEF Data, Word64, IInv, Machine
<1> QED BY <1>1, <1>2, <1>3, Constants DEF Booted, BootOK

-----------------------------------------------------------------------------
\* Changing a field of a record of Data, field by field.
LEMMA Fields ==
    ASSUME NEW d \in Data, NEW c, NEW l, NEW a, NEW n
    PROVE  /\ [d EXCEPT !.curr = c]
                = [curr |-> c, total |-> d.total, lastupdated |-> d.lastupdated,
                   btime |-> d.btime, active |-> d.active, life |-> d.life]
           /\ [d EXCEPT !.curr = c, !.life = n]
                = [curr |-> c, total |-> d.total, lastupdated |-> d.lastupdated,
                   btime |-> d.btime, active |-> d.active, life |-> n]
           /\ [d EXCEPT !.lastupdated = l]
                = [curr |-> d.curr, total |-> d.total, lastupdated |-> l,
                   btime |-> d.btime, active |-> d.active, life |-> d.life]
           /\ [d EXCEPT !.active = a]
                = [curr |-> d.curr, total |-> d.total, lastupdated |-> d.lastupdated,
                   btime |-> d.btime, active |-> a, life |-> d.life]
<1>1. [d EXCEPT !.curr = c]
       = [curr |-> c, total |-> d.total, lastupdated |-> d.lastupdated,
          btime |-> d.btime, active |-> d.active, life |-> d.life]
  BY DEF Data
<1>2. [d EXCEPT !.curr = c, !.life = n]
       = [curr |-> c, total |-> d.total, lastupdated |-> d.lastupdated,
          btime |-> d.btime, active |-> d.active, life |-> n]
  <2>1. d = [curr |-> d.curr, total |-> d.total, lastupdated |-> d.lastupdated,
             btime |-> d.btime, active |-> d.active, life |-> d.life]
    BY DEF Data
  <2> DEFINE F == {"curr", "total", "lastupdated", "btime", "active", "life"}
             r == [d EXCEPT !.curr = c, !.life = n]
  <2>2. DOMAIN d = F
    BY <2>1
  <2>3. r = [x \in F |-> IF x = "life" THEN n ELSE IF x = "curr" THEN c ELSE d[x]]
    BY <2>2, Zenon
  <2> QED BY <2>3
<1>3. [d EXCEPT !.lastupdated = l]
       = [curr |-> d.curr, total |-> d.total, lastupdated |-> l,
          btime |-> d.btime, active |-> d.active, life |-> d.life]
  BY DEF Data
<1>4. [d EXCEPT !.active = a]
       = [curr |-> d.curr, total |-> d.total, lastupdated |-> d.lastupdated,
          btime |-> d.btime, active |-> a, life |-> d.life]
  BY DEF Data
<1> QED BY <1>1, <1>2, <1>3, <1>4

\* Stamping a record claims nothing.
LEMMA WrittenGood ==
    ASSUME IInv, NEW t, NEW d, GoodIn(d, boot, kernel, present, t, life)
    PROVE  GoodIn(Written(d), boot, kernel, present, t, life)
<1>1. d \in Data /\ now \in Nat
  BY DEF GoodIn, IInv, Machine
<1>2. Written(d) = [curr |-> d.curr, total |-> d.total, lastupdated |-> now,
                    btime |-> d.btime, active |-> d.active, life |-> d.life]
  BY <1>1, Fields DEF Written
<1>3. Written(d) \in Data
  BY <1>1, <1>2 DEF Data
<1> QED BY <1>2, <1>3 DEF GoodIn, BootOK, LifeOK, Bytes, ClaimIn

\* An update credits what is due, except for the bytes that do not fill a
\* KiB, and leaves those due; or it credits nothing and leaves nothing due.
LEMMA UpdateGood ==
    ASSUME IInv, NEW d, Good(d), d.active, present, NEW bt \in Btimes
    PROVE  Good(parseifinfo(d, bt))
<1> DEFINE e == parseifinfo(d, bt)
<1>1. /\ d \in Data /\ BootOK(d, boot)
      /\ kernel \in [Dir -> 0..KernelMax] /\ Most \in [Dir -> Nat]
      /\ boot \in Nat /\ now \in Nat /\ boot <= now /\ now <= MaxNow
      /\ bt \in Nat /\ boot <= bt /\ bt <= boot + BtimeNoise /\ life \in Nat
  <2>1. Most \in [Dir -> Nat]
    BY MostType DEF IInv
  <2> QED BY <2>1, Constants DEF Good, GoodIn, IInv, Machine, Btimes
<1>2. ASSUME NEW dir \in Dir
      PROVE  /\ Change(d, bt, dir) <= ClaimIn(d, dir, boot, kernel, present, life)
             /\ Change(d, bt, dir) \in Word64
  <2>1. Booted(d, bt) <=> d.btime < boot
    BY <1>1, BootedExactly
  <2>2. kernel[dir] \in Word64 /\ d.curr[dir] \in Word64 /\ 0 \in Word64
    BY <1>1, Constants DEF Data, Word64
  <2>3. countercalc(0, kernel[dir]) = kernel[dir]
    BY <2>2 DEF countercalc, Word64
  <2>4. Change(d, bt, dir) \in Word64 /\ countercalc(d.curr[dir], kernel[dir]) \in Word64
    BY <2>2, CounterCalcType DEF Change
  <2> DEFINE change == Change(d, bt, dir)
             claim == ClaimIn(d, dir, boot, kernel, present, life)
  <2>5. claim = change \/ claim = Larger(change, kernel[dir])
    <3>1. CASE d.btime < boot
      BY <2>1, <2>3, <3>1 DEF Change, ClaimIn
    <3>2. CASE ~(d.btime < boot)
      <4>1. change = countercalc(d.curr[dir], kernel[dir])
        BY <2>1, <3>2 DEF Change
      <4> QED BY <3>2, <4>1 DEF ClaimIn
    <3> QED BY <3>1, <3>2
  <2>6. change \in Nat /\ kernel[dir] \in Nat
    BY <2>2, <2>4, WordIsNat
  <2> HIDE DEF change, claim
  <2>7. change <= claim
    BY <2>5, <2>6 DEF Larger
  <2> QED BY <2>4, <2>7 DEF change, claim
<1>3. ASSUME NEW dir \in Dir
      PROVE  /\ e.curr[dir] \in Word64
             /\ e.total[dir] \in [mb : Nat, kb : 0..(K - 1)]
             /\ CurrOK(e.curr[dir])
             /\ Bytes(e, dir) + ClaimIn(e, dir, boot, kernel, present, life) <= Most[dir]
  <2> DEFINE due == ClaimIn(d, dir, boot, kernel, present, life)
             left == ClaimIn(e, dir, boot, kernel, present, life)
             cc == Credit(d, bt, dir)
             rest == BytePart(cc)
  <2>1. cc \in Nat /\ cc <= due /\ due \in Nat
    <3>1. Change(d, bt, dir) \in Nat
      BY <1>2, WordIsNat
    <3>2. Change(d, bt, dir) <= due /\ due \in Nat
      BY <1>1, <1>2, ClaimType
    <3>3. cc = Change(d, bt, dir) \/ cc = 0
      BY DEF Credit
    <3> HIDE DEF due, cc
    <3> QED BY <3>1, <3>2, <3>3
  <2>2. /\ e.curr[dir] = U64(kernel[dir] - rest)
        /\ e.total[dir] = addtraffic(d.total[dir], MBPart(cc), KBPart(cc))
        /\ e.active = d.active /\ e.btime = bt /\ e.life = life
    BY DEF parseifinfo
  <2>3. d.total[dir] \in [mb : Nat, kb : 0..(K - 1)]
    BY <1>1 DEF Data
  <2> HIDE DEF due, left, cc, e
  <2>4. /\ e.total[dir] \in [mb : Nat, kb : 0..(K - 1)]
        /\ rest \in 0..(K - 1)
        /\ Bytes(e, dir) + rest = Bytes(d, dir) + cc
    BY <2>1, <2>2, <2>3, CreditTotal DEF Bytes
  <2> HIDE DEF rest
  <2>5. kernel[dir] \in 0..KernelMax
    BY <1>1
  <2>6. /\ e.curr[dir] \in Word64 /\ CurrOK(e.curr[dir])
        /\ countercalc(e.curr[dir], kernel[dir]) <= rest
    BY <2>2, <2>4, <2>5, Residue
  <2>7. left <= rest /\ left \in Nat
    <3>1. left = countercalc(e.curr[dir], kernel[dir])
      BY <1>1, <2>2, Constants DEF left, ClaimIn
    <3>2. countercalc(e.curr[dir], kernel[dir]) \in Nat
      <4>1. kernel[dir] \in Word64
        BY <2>5, Constants DEF Word64
      <4> QED BY <2>6, <4>1, CounterCalcType, WordIsNat
    <3> QED BY <2>6, <3>1, <3>2
  <2>8. Bytes(d, dir) + due <= Most[dir] /\ Most[dir] \in Nat
    BY <1>1 DEF Good, GoodIn, due
  <2>9. Bytes(d, dir) \in Nat
    BY <1>1, BytesType
  <2>10. Bytes(e, dir) \in Int
    <3>1. e.total[dir].mb * K \in Int
      BY <2>4, Constants
    <3>2. InKB(e.total[dir].mb, e.total[dir].kb) \in Int
      BY <2>4, <3>1, Constants DEF InKB
    <3> QED BY <3>2, Constants DEF Bytes
  <2>11. Bytes(e, dir) + left <= Most[dir]
    BY <2>1, <2>4, <2>7, <2>8, <2>9, <2>10, Constants
  <2> QED BY <2>4, <2>6, <2>11 DEF left, e
<1>4. e.curr \in [Dir -> Word64] /\ e.total \in [Dir -> [mb : Nat, kb : 0..(K - 1)]]
  BY <1>3 DEF parseifinfo
<1>5. bt \in Word64 /\ d.active \in BOOLEAN /\ d.lastupdated \in Nat
  <2>1. bt \in Word64
    BY <1>1, Constants DEF Word64
  <2>2. d.active \in BOOLEAN /\ d.lastupdated \in Nat
    BY <1>1 DEF Data
  <2> QED BY <2>1, <2>2
<1>6. /\ e.btime = bt /\ e.active = d.active /\ e.lastupdated = d.lastupdated
      /\ e.life = life
      /\ e = [curr |-> e.curr, total |-> e.total, lastupdated |-> e.lastupdated,
              btime |-> e.btime, active |-> e.active, life |-> e.life]
  BY DEF parseifinfo
<1> HIDE DEF e
<1>7. e \in Data
  BY <1>1, <1>4, <1>5, <1>6 DEF Data
<1>8. BootOK(e, boot)
  BY <1>1, <1>6, Constants DEF BootOK
<1>9. LifeOK(e, present, life)
  BY <1>1, <1>6 DEF LifeOK
<1>10. Good(e)
  BY <1>3, <1>7, <1>8, <1>9 DEF Good, GoodIn
<1> QED BY <1>10 DEF e

\* Room for t in place of Most: as much, or one counter more for a slip.
Room(t, h) ==
    /\ t \in [Dir -> Nat]
    /\ \A dir \in Dir : t[dir] = IF h THEN Most[dir] + KernelMax ELSE Most[dir]

\* Another record with the same totals and boot time is as good if it is charged
\* for no more than the first and what there is room for.
LEMMA ChargedGood ==
    ASSUME IInv, NEW d, Good(d), NEW e \in Data, NEW h \in BOOLEAN, NEW t, Room(t, h),
           e.total = d.total, e.btime = d.btime, LifeOK(e, present, life),
           \A dir \in Dir :
              /\ CurrOK(e.curr[dir])
              /\ ClaimIn(e, dir, boot, kernel, present, life)
                   <= ClaimIn(d, dir, boot, kernel, present, life)
                        + (IF h THEN KernelMax ELSE 0)
    PROVE  GoodIn(e, boot, kernel, present, t, life)
<1>1. ASSUME NEW dir \in Dir
      PROVE  Bytes(e, dir) + ClaimIn(e, dir, boot, kernel, present, life) <= t[dir]
  <2> DEFINE old == ClaimIn(d, dir, boot, kernel, present, life)
             new == ClaimIn(e, dir, boot, kernel, present, life)
             extra == IF h THEN KernelMax ELSE 0
  <2>1. d \in Data /\ kernel \in [Dir -> 0..KernelMax] /\ Most[dir] \in Nat
    BY MostType DEF Good, GoodIn, IInv, Machine
  <2>2. new \in Nat /\ old \in Nat /\ Bytes(d, dir) \in Nat /\ extra \in Nat
    BY <2>1, ClaimType, BytesType, Constants
  <2>3. Bytes(e, dir) = Bytes(d, dir)
    BY DEF Bytes
  <2>4. Bytes(d, dir) + old <= Most[dir] /\ new <= old + extra
    BY DEF Good, GoodIn
  <2>5. t[dir] = Most[dir] + extra
    BY <2>1 DEF Room
  <2> HIDE DEF old, new, extra
  <2>6. Bytes(e, dir) + new <= t[dir]
    BY <2>1, <2>2, <2>3, <2>4, <2>5
  <2> QED BY <2>6 DEF new
<1>2. BootOK(e, boot)
  BY DEF Good, GoodIn, BootOK
<1> QED BY <1>1, <1>2 DEF GoodIn

\* Room for no slip is what there was.
LEMMA NoRoom ==
    ASSUME IInv
    PROVE  Room(Most, FALSE)
  BY MostType DEF IInv, Room

\* More room does no harm.
LEMMA RoomGood ==
    ASSUME IInv, NEW d, Good(d), NEW h \in BOOLEAN, NEW t, Room(t, h)
    PROVE  GoodIn(d, boot, kernel, present, t, life)
<1>1. d \in Data /\ kernel \in [Dir -> 0..KernelMax] /\ LifeOK(d, present, life)
      /\ \A dir \in Dir : CurrOK(d.curr[dir])
  BY DEF Good, GoodIn, IInv, Machine
<1>2. ASSUME NEW dir \in Dir
      PROVE  ClaimIn(d, dir, boot, kernel, present, life)
               <= ClaimIn(d, dir, boot, kernel, present, life)
                    + (IF h THEN KernelMax ELSE 0)
  BY <1>1, ClaimType, Constants
<1> QED BY <1>1, <1>2, ChargedGood

\* With its counters forgotten, as dbcheck and -r do, a record is charged for
\* what the counters show, which slips if they had been counted already.
LEMMA ResetGood ==
    ASSUME IInv, NEW d, Good(d), NEW a \in BOOLEAN, NEW t, Room(t, Counted(d))
    PROVE  GoodIn([Reset(d) EXCEPT !.active = a], boot, kernel, present, t, life)
<1> DEFINE e == [Reset(d) EXCEPT !.active = a]
<1>1. d \in Data /\ kernel \in [Dir -> 0..KernelMax] /\ LifeOK(d, present, life)
  BY DEF Good, GoodIn, IInv, Machine
<1>2. Zero \in [Dir -> Word64] /\ \A dir \in Dir : Zero[dir] = 0 /\ CurrOK(0)
  BY Constants DEF Zero, Word64, CurrOK
<1>3. Reset(d) = [curr |-> Zero, total |-> d.total, lastupdated |-> d.lastupdated,
                  btime |-> d.btime, active |-> d.active, life |-> d.life]
  BY <1>1, Fields DEF Reset
<1>4. Reset(d) \in Data
  BY <1>1, <1>2, <1>3 DEF Data
<1>5. e = [curr |-> Zero, total |-> d.total, lastupdated |-> d.lastupdated,
           btime |-> d.btime, active |-> a, life |-> d.life]
  <2> DEFINE r == Reset(d)
  <2>1. r \in Data
    BY <1>4
  <2> HIDE DEF r
  <2>2. [r EXCEPT !.active = a]
           = [curr |-> r.curr, total |-> r.total, lastupdated |-> r.lastupdated,
              btime |-> r.btime, active |-> a, life |-> r.life]
    BY <2>1, Fields
  <2> QED BY <1>3, <2>2 DEF r
<1>6. e \in Data
  BY <1>1, <1>2, <1>5 DEF Data
<1>7. /\ e.total = d.total /\ e.btime = d.btime /\ e.life = d.life /\ e.curr = Zero
  BY <1>5
<1> HIDE DEF e
<1>8. ASSUME NEW dir \in Dir
      PROVE  ClaimIn(e, dir, boot, kernel, present, life)
               <= ClaimIn(d, dir, boot, kernel, present, life)
                    + (IF Counted(d) THEN KernelMax ELSE 0)
  <2> DEFINE old == ClaimIn(d, dir, boot, kernel, present, life)
             new == ClaimIn(e, dir, boot, kernel, present, life)
             b == kernel[dir]
             cc == countercalc(d.curr[dir], b)
  <2>1. b \in 0..KernelMax /\ b \in Nat /\ KernelMax \in Nat
    BY <1>1, Constants
  <2>2. countercalc(0, b) = b /\ Larger(b, b) = b
    BY <2>1 DEF countercalc, Larger
  <2>3. new = IF present THEN b ELSE 0
    BY <1>2, <1>7, <2>2 DEF ClaimIn
  <2>4. old \in Nat /\ cc \in Nat
    <3>1. b \in Word64 /\ d.curr[dir] \in Word64
      BY <1>1, <2>1, Constants DEF Data, Word64
    <3>2. cc \in Nat
      BY <3>1, CounterCalcType, WordIsNat
    <3> QED BY <1>1, <3>2, ClaimType
  <2>5. present /\ ~Counted(d) => old = b \/ old = Larger(cc, b)
    <3> SUFFICES ASSUME present, ~Counted(d) PROVE old = b \/ old = Larger(cc, b)
      OBVIOUS
    <3>1. boot \in Nat /\ d.btime \in Nat
      BY <1>1, WordIsNat DEF IInv, Machine, Data
    <3>2. CASE d.curr = Zero
      <4>1. cc = b
        BY <1>2, <2>2, <3>2
      <4> QED BY <2>2, <4>1 DEF ClaimIn
    <3>3. CASE d.btime < boot
      BY <3>3 DEF ClaimIn
    <3>4. CASE d.life # life
      BY <3>4 DEF ClaimIn
    <3>5. d.curr = Zero \/ d.btime < boot \/ d.life # life
      BY <3>1 DEF Counted
    <3> QED BY <3>2, <3>3, <3>4, <3>5
  <2> HIDE DEF old, new, b, cc
  <2>6. new <= old + (IF Counted(d) THEN KernelMax ELSE 0)
    BY <2>1, <2>3, <2>4, <2>5 DEF Larger
  <2> QED BY <2>6 DEF old, new
<1>9. LifeOK(e, present, life) /\ Counted(d) \in BOOLEAN
  BY <1>1, <1>7 DEF LifeOK, Counted
<1>10. \A dir \in Dir : CurrOK(e.curr[dir])
  BY <1>2, <1>7
<1>11. GoodIn(e, boot, kernel, present, t, life)
  BY <1>6, <1>7, <1>8, <1>9, <1>10, ChargedGood
<1> QED BY <1>11 DEF e

\* --sync makes the counters the ones just read.
LEMMA SyncGood ==
    ASSUME IInv, NEW d, Good(d), present
    PROVE  Good(Synced(d))
<1> DEFINE e == Synced(d)
<1>1. d \in Data /\ kernel \in [Dir -> 0..KernelMax] /\ life \in Nat
  BY DEF Good, GoodIn, IInv, Machine
<1>2. kernel \in [Dir -> Word64]
  BY <1>1, Constants DEF Word64
<1>3. e = [curr |-> kernel, total |-> d.total, lastupdated |-> d.lastupdated,
           btime |-> d.btime, active |-> d.active, life |-> life]
  BY <1>1, Fields DEF Synced
<1>4. e \in Data
  BY <1>1, <1>2, <1>3 DEF Data
<1>5. /\ e.total = d.total /\ e.btime = d.btime /\ e.active = d.active
      /\ e.curr = kernel /\ e.life = life
  BY <1>3
<1> HIDE DEF e
<1>6. ASSUME NEW dir \in Dir
      PROVE  ClaimIn(e, dir, boot, kernel, present, life)
               <= ClaimIn(d, dir, boot, kernel, present, life) + (IF FALSE THEN KernelMax ELSE 0)
  <2>1. kernel[dir] \in Nat
    BY <1>1, Constants
  <2>2. countercalc(e.curr[dir], kernel[dir]) = 0
    BY <1>5, <2>1 DEF countercalc
  <2> DEFINE old == ClaimIn(d, dir, boot, kernel, present, life)
             new == ClaimIn(e, dir, boot, kernel, present, life)
  <2>3. old \in Nat
    BY <1>1, ClaimType
  <2>4. new = 0 \/ new = old
    BY <1>5, <2>2 DEF ClaimIn
  <2> HIDE DEF old, new
  <2>5. new <= old + (IF FALSE THEN KernelMax ELSE 0)
    BY <2>3, <2>4
  <2> QED BY <2>5 DEF old, new
<1>7. LifeOK(e, present, life)
  BY <1>1, <1>5 DEF LifeOK
<1>8. \A dir \in Dir : CurrOK(e.curr[dir])
  BY <1>1, <1>5 DEF CurrOK
<1>9. GoodIn(e, boot, kernel, present, Most, life)
  BY <1>4, <1>5, <1>6, <1>7, <1>8, NoRoom, ChargedGood
<1> QED BY <1>9 DEF e, Good

\* A record that is disabled is charged for no more than before.
LEMMA DisabledGood ==
    ASSUME IInv, NEW d, Good(d)
    PROVE  Good([d EXCEPT !.active = FALSE])
<1> DEFINE e == [d EXCEPT !.active = FALSE]
<1>1. d \in Data /\ kernel \in [Dir -> 0..KernelMax] /\ LifeOK(d, present, life)
      /\ \A dir \in Dir : CurrOK(d.curr[dir])
  BY DEF Good, GoodIn, IInv, Machine
<1>2. e = [curr |-> d.curr, total |-> d.total, lastupdated |-> d.lastupdated,
           btime |-> d.btime, active |-> FALSE, life |-> d.life]
  BY <1>1, Fields
<1>3. e \in Data
  BY <1>1, <1>2 DEF Data
<1>4. /\ e.total = d.total /\ e.btime = d.btime /\ e.curr = d.curr /\ e.life = d.life
      /\ e.active = FALSE
  BY <1>2
<1> HIDE DEF e
<1>5. ASSUME NEW dir \in Dir
      PROVE  ClaimIn(e, dir, boot, kernel, present, life)
               <= ClaimIn(d, dir, boot, kernel, present, life) + (IF FALSE THEN KernelMax ELSE 0)
  <2> DEFINE old == ClaimIn(d, dir, boot, kernel, present, life)
             new == ClaimIn(e, dir, boot, kernel, present, life)
             cc == countercalc(d.curr[dir], kernel[dir])
  <2>1. old \in Nat /\ kernel[dir] \in Nat /\ cc \in Nat
    <3>1. kernel[dir] \in Word64 /\ d.curr[dir] \in Word64
      BY <1>1, Constants DEF Data, Word64
    <3>2. cc \in Nat
      BY <3>1, CounterCalcType, WordIsNat
    <3> QED BY <1>1, <3>1, <3>2, ClaimType, WordIsNat
  <2>2. \/ new = old
        \/ new = kernel[dir] /\ old = Larger(cc, kernel[dir])
    BY <1>4 DEF ClaimIn
  <2> QED BY <2>1, <2>2 DEF Larger
<1>6. LifeOK(e, present, life) /\ \A dir \in Dir : CurrOK(e.curr[dir])
  BY <1>1, <1>4 DEF LifeOK
<1>7. GoodIn(e, boot, kernel, present, Most, life)
  BY <1>3, <1>4, <1>5, <1>6, NoRoom, ChargedGood
<1> QED BY <1>7 DEF e, Good

\* One that is enabled with counters of an earlier life slips.
LEMMA EnabledGood ==
    ASSUME IInv, NEW d, Good(d), ~d.active, NEW t, Room(t, present /\ Stale(d))
    PROVE  GoodIn([d EXCEPT !.active = TRUE], boot, kernel, present, t, life)
<1> DEFINE e == [d EXCEPT !.active = TRUE]
           h == present /\ Stale(d)
<1>1. d \in Data /\ kernel \in [Dir -> 0..KernelMax] /\ LifeOK(d, present, life)
      /\ \A dir \in Dir : CurrOK(d.curr[dir])
  BY DEF Good, GoodIn, IInv, Machine
<1>2. e = [curr |-> d.curr, total |-> d.total, lastupdated |-> d.lastupdated,
           btime |-> d.btime, active |-> TRUE, life |-> d.life]
  BY <1>1, Fields
<1>3. e \in Data
  BY <1>1, <1>2 DEF Data
<1>4. /\ e.total = d.total /\ e.btime = d.btime /\ e.curr = d.curr /\ e.life = d.life
      /\ e.active = TRUE
  BY <1>2
<1> HIDE DEF e
<1>5. ASSUME NEW dir \in Dir
      PROVE  ClaimIn(e, dir, boot, kernel, present, life)
               <= ClaimIn(d, dir, boot, kernel, present, life) + (IF h THEN KernelMax ELSE 0)
  <2> DEFINE old == ClaimIn(d, dir, boot, kernel, present, life)
             new == ClaimIn(e, dir, boot, kernel, present, life)
             b == kernel[dir]
             cc == countercalc(d.curr[dir], b)
  <2>1. b \in 0..KernelMax /\ b \in Nat /\ KernelMax \in Nat
    BY <1>1, Constants
  <2>2. old \in Nat /\ cc \in Nat /\ cc <= b + KernelMax
    <3>1. b \in Word64 /\ d.curr[dir] \in Word64
      BY <1>1, <2>1, Constants DEF Data, Word64
    <3>2. cc \in Nat
      BY <3>1, CounterCalcType, WordIsNat
    <3>3. cc <= b + KernelMax
      BY <1>1, <2>1, <3>1, Misread
    <3> QED BY <1>1, <3>2, <3>3, ClaimType
  <2>3. new = old \/ (present /\ d.life # life /\ ~(d.btime < boot)
                       /\ old = b /\ new = Larger(cc, b))
    BY <1>4 DEF ClaimIn
  <2>4. new = old \/ (h /\ old = b /\ new = Larger(cc, b)) \/ (old = b /\ cc = b /\ new = Larger(cc, b))
    <3> SUFFICES ASSUME present, d.life # life, ~(d.btime < boot), old = b, new = Larger(cc, b)
                 PROVE  h \/ cc = b
      BY <2>3
    <3>1. boot \in Nat /\ d.btime \in Nat
      BY <1>1, WordIsNat DEF IInv, Machine, Data
    <3>2. CASE d.curr = Zero
      <4>1. d.curr[dir] = 0
        BY <3>2 DEF Zero
      <4>2. cc = b
        BY <2>1, <4>1 DEF countercalc
      <4> QED BY <4>2
    <3>3. CASE d.curr # Zero
      BY <3>1, <3>3 DEF Stale
    <3> QED BY <3>2, <3>3
  <2> HIDE DEF old, new, b, cc, h
  <2>5. new <= old + (IF h THEN KernelMax ELSE 0)
    BY <2>1, <2>2, <2>4 DEF Larger
  <2> QED BY <2>5 DEF old, new
<1>6. LifeOK(e, present, life) /\ \A dir \in Dir : CurrOK(e.curr[dir])
  BY <1>1, <1>4 DEF LifeOK
<1>7. h \in BOOLEAN
  BY DEF IInv, Machine, Stale
<1> HIDE DEF h
<1>8. Room(t, h)
  BY DEF h
<1>9. GoodIn(e, boot, kernel, present, t, life)
  BY <1>3, <1>4, <1>5, <1>6, <1>7, <1>8, ChargedGood
<1> QED BY <1>9 DEF e

-----------------------------------------------------------------------------
(***************************************************************************)
(* The steps of the environment change what every copy is judged by.       *)
(***************************************************************************)

\* Traffic adds to the truth at least what it adds to what is due.
LEMMA TrafficFrame ==
    ASSUME IInv, NEW dir \in Dir, NEW n \in Bursts[dir], Traffic(dir, n),
           NEW d, GoodIn(d, boot, kernel, present, Most, life)
    PROVE  /\ GoodIn(d, boot', kernel', present', Most', life')
           /\ Machine'
<1>1. /\ d \in Data /\ kernel \in [Dir -> 0..KernelMax]
      /\ truth \in [Dir -> Nat] /\ wraps \in [Dir -> Nat] /\ present
      /\ boot' = boot /\ present' = present /\ now' = now /\ up' = up /\ sync' = sync
      /\ life' = life /\ slips' = slips /\ Allowance' = Allowance /\ Allowance \in Nat
  BY MostType DEF GoodIn, IInv, Machine, Traffic, Allowance
<1>2. n \in 1..KernelMax /\ n \in Nat
  <2>1. Bursts[dir] \in SUBSET (1..KernelMax)
    BY AccountingAssumption
  <2> QED BY <2>1, Constants
<1> DEFINE b == kernel[dir]
           c == IF b + n > KernelMax THEN b + n - KernelMax - 1 ELSE b + n
<1>3. b \in 0..KernelMax
  BY <1>1
<1>4. kernel' = [kernel EXCEPT ![dir] = c] /\ truth' = [truth EXCEPT ![dir] = @ + n]
  BY DEF Traffic
<1>5. wraps' = wraps \/ wraps' = [wraps EXCEPT ![dir] = @ + 1]
  BY DEF Traffic
<1> HIDE DEF c, b
<1>6. /\ c \in 0..KernelMax /\ c <= b + n
      /\ \A a \in Word64 : countercalc(a, c) <= countercalc(a, b) + n
  <2>1. ASSUME NEW a \in Word64
        PROVE  /\ c \in 0..KernelMax /\ c <= b + n
               /\ countercalc(a, c) <= countercalc(a, b) + n
    BY <1>2, <1>3, TrafficDue DEF c
  <2>2. 0 \in Word64
    BY Constants DEF Word64
  <2> QED BY <2>1, <2>2
<1>7. kernel' \in [Dir -> 0..KernelMax] /\ truth' \in [Dir -> Nat]
      /\ wraps' \in [Dir -> Nat]
  BY <1>1, <1>2, <1>4, <1>5, <1>6
<1>8. Machine'
  BY <1>1, <1>7 DEF Machine, IInv
<1>9. ASSUME NEW e \in Dir
      PROVE  Bytes(d, e) + ClaimIn(d, e, boot', kernel', present', life') <= Most'[e]
  <2> DEFINE old == ClaimIn(d, e, boot, kernel, present, life)
             new == ClaimIn(d, e, boot', kernel', present', life')
  <2>1. /\ Bytes(d, e) + old <= Most[e] /\ Most[e] = truth[e] + Allowance
        /\ truth[e] \in Nat /\ Most'[e] = truth'[e] + Allowance
    BY <1>1, MostType DEF GoodIn, IInv, Most
  <2>2. Bytes(d, e) \in Nat /\ old \in Nat /\ new \in Nat
    BY <1>1, <1>7, BytesType, ClaimType
  <2>3. CASE e # dir
    <3>1. kernel'[e] = kernel[e] /\ truth'[e] = truth[e]
      BY <1>1, <1>4, <2>3
    <3>2. new = old
      BY <1>1, <3>1 DEF ClaimIn
    <3> HIDE DEF old, new
    <3>3. Bytes(d, e) + new <= Most'[e]
      BY <2>1, <3>1, <3>2
    <3> QED BY <3>3 DEF new
  <2>4. CASE e = dir
    <3>1. kernel[e] = b /\ kernel'[e] = c /\ truth'[e] = truth[e] + n
      BY <1>1, <1>4, <2>4 DEF b
    <3> DEFINE cc == countercalc(d.curr[e], b)   cn == countercalc(d.curr[e], c)
    <3>2. d.curr[e] \in Word64 /\ b \in Word64 /\ c \in Word64
      BY <1>1, <1>3, <1>6, Constants DEF Data, Word64
    <3>3. cn <= cc + n /\ c <= b + n
      BY <1>6, <3>2
    <3>4. cc \in Nat /\ cn \in Nat /\ b \in Nat /\ c \in Nat
      BY <3>2, CounterCalcType, WordIsNat
    <3>5. \/ old = b /\ new = c
          \/ old = cc /\ new = cn
          \/ old = Larger(cc, b) /\ new = Larger(cn, c)
      BY <1>1, <3>1 DEF ClaimIn
    <3> HIDE DEF old, new, cc, cn
    <3>6. new <= old + n
      BY <1>2, <3>3, <3>4, <3>5 DEF Larger
    <3>7. Bytes(d, e) + new <= Most'[e]
      BY <1>1, <1>2, <2>1, <2>2, <3>1, <3>6
    <3> QED BY <3>7 DEF new
  <2> QED BY <2>3, <2>4
<1> QED BY <1>1, <1>8, <1>9 DEF GoodIn

\* When the counters are lost nothing is due, be it that the boot time tells of
\* it or that there is no interface; and no copy is of the new life.
LEMMA LossFrame ==
    ASSUME IInv, Reboot \/ Vanish, NEW d, Good(d)
    PROVE  GoodIn(d, boot', kernel', present', Most', life')
<1>1. /\ d \in Data /\ kernel \in [Dir -> 0..KernelMax]
      /\ boot \in Nat /\ now \in Nat /\ kernel' = Zero
      /\ BootOK(d, boot) /\ life \in Nat /\ life' = life + 1 /\ d.life <= life
  BY DEF Good, GoodIn, LifeOK, IInv, Machine, Reboot, Vanish
<1>2. d.btime \in Nat /\ d.life \in Nat
  BY <1>1, WordIsNat DEF Data
<1>3. BootOK(d, boot') /\ (d.btime < boot' \/ ~present')
  <2>1. CASE Vanish
    BY <1>1, <2>1 DEF Vanish
  <2>2. CASE Reboot
    <3>1. boot' = now /\ now > boot + BVar + BtimeNoise
      BY <2>2 DEF Reboot
    <3> QED BY <1>1, <1>2, <3>1, Constants DEF BootOK
  <2> QED BY <2>1, <2>2
<1>4. LifeOK(d, present', life')
  BY <1>1, <1>2 DEF LifeOK
<1>5. Most' = Most /\ \A e \in Dir : Most[e] \in Nat
  BY MostType DEF IInv, Reboot, Vanish, Most, Allowance
<1>6. ASSUME NEW e \in Dir
      PROVE  Bytes(d, e) + ClaimIn(d, e, boot', kernel', present', life') <= Most'[e]
  <2>1. ClaimIn(d, e, boot', kernel', present', life') = 0
    BY <1>1, <1>3 DEF ClaimIn, Zero
  <2>2. Bytes(d, e) + ClaimIn(d, e, boot, kernel, present, life) <= Most[e]
    BY DEF Good, GoodIn
  <2>3. Bytes(d, e) \in Nat /\ ClaimIn(d, e, boot, kernel, present, life) \in Nat
    BY <1>1, BytesType, ClaimType
  <2> QED BY <1>5, <2>1, <2>2, <2>3
<1> QED BY <1>1, <1>3, <1>4, <1>6 DEF Good, GoodIn

\* When the interface is back, only a copy that has not noticed that it was gone
\* finds anything due from its new counters.
LEMMA ReturnFrame ==
    ASSUME IInv, Return, NEW d \in Copies, Good(d)
    PROVE  GoodIn(d, boot', kernel', present', Most', life')
<1> DEFINE h == \E c \in Copies : c.active /\ Stale(c)
<1>1. /\ d \in Data /\ kernel = Zero /\ kernel' = kernel /\ ~present /\ present'
      /\ boot' = boot /\ BootOK(d, boot) /\ life' = life /\ d.life <= life /\ d.life # life
      /\ boot \in Nat /\ \A e \in Dir : CurrOK(d.curr[e])
  BY DEF Good, GoodIn, LifeOK, IInv, Machine, Return
<1>2. \A e \in Dir : /\ Most[e] \in Nat
                     /\ Most'[e] = IF h THEN Most[e] + KernelMax ELSE Most[e]
  <2>1. Machine /\ Slip(h) /\ truth' = truth /\ h \in BOOLEAN
    BY DEF IInv, Return
  <2> HIDE DEF h
  <2> QED BY <2>1, SlipMost, MostType
<1>3. d.active /\ Stale(d) => h
  OBVIOUS
<1> HIDE DEF h
<1>4. ASSUME NEW e \in Dir
      PROVE  Bytes(d, e) + ClaimIn(d, e, boot', kernel', present', life') <= Most'[e]
  <2> DEFINE a == d.curr[e]
             cc == countercalc(a, 0)
             new == ClaimIn(d, e, boot', kernel', present', life')
  <2>1. /\ kernel'[e] = 0 /\ a \in Word64 /\ 0 \in 0..KernelMax /\ 0 \in Word64
        /\ KernelMax \in Nat /\ d.btime \in Nat
    BY <1>1, Constants, WordIsNat DEF Zero, Data, Word64
  <2>2. cc \in Nat /\ cc <= KernelMax
    <3>1. cc <= 0 + KernelMax
      BY <1>1, <2>1, Misread
    <3>2. cc \in Nat
      BY <2>1, CounterCalcType, WordIsNat
    <3> QED BY <2>1, <3>1, <3>2
  <2>3. new = 0 \/ (d.active /\ ~(d.btime < boot) /\ new = Larger(cc, 0))
    BY <1>1, <2>1 DEF ClaimIn
  <2>4. new = 0 \/ (h /\ new <= KernelMax /\ new \in Nat)
    <3>1. CASE d.active /\ ~(d.btime < boot) /\ new = Larger(cc, 0)
      <4>1. new = cc
        BY <2>2, <3>1 DEF Larger
      <4>2. CASE d.curr = Zero
        <5>1. cc = 0
          BY <4>2 DEF Zero, countercalc
        <5> QED BY <4>1, <5>1
      <4>3. CASE d.curr # Zero
        <5>1. Stale(d)
          BY <1>1, <2>1, <3>1, <4>3 DEF Stale
        <5> QED BY <1>3, <2>2, <3>1, <4>1, <5>1
      <4> QED BY <4>2, <4>3
    <3> QED BY <2>3, <3>1
  <2>5. Bytes(d, e) <= Most[e] /\ Bytes(d, e) \in Nat
    <3>1. Bytes(d, e) + ClaimIn(d, e, boot, kernel, present, life) <= Most[e]
      BY DEF Good, GoodIn
    <3>2. ClaimIn(d, e, boot, kernel, present, life) = 0
      BY <1>1 DEF ClaimIn
    <3> QED BY <1>1, <3>1, <3>2, BytesType
  <2> HIDE DEF new, cc, a
  <2>6. Bytes(d, e) + new <= Most'[e]
    BY <1>2, <2>1, <2>4, <2>5
  <2> QED BY <2>6 DEF new
<1>5. LifeOK(d, present', life')
  BY <1>1 DEF LifeOK
<1> QED BY <1>1, <1>4, <1>5 DEF GoodIn

-----------------------------------------------------------------------------
\* The initial states have the inductive invariant.
LEMMA InitIInv == Init => IInv
<1> SUFFICES ASSUME Init PROVE IInv
  OBVIOUS
<1>1. PICK bt \in Btimes : file = NewData(bt)
  BY DEF Init
<1>2. /\ now = FirstBoot /\ boot = FirstBoot /\ kernel = Zero /\ present = TRUE
      /\ up = FALSE /\ sync = FALSE /\ cache = NoData /\ truth = Zero /\ wraps = Zero
      /\ life = 0 /\ slips = 0
  BY DEF Init
<1>3. Machine
  <2>1. /\ Zero \in [Dir -> Nat] /\ Zero \in [Dir -> 0..KernelMax]
        /\ FirstBoot \in Nat /\ FirstBoot <= FirstBoot /\ FirstBoot <= MaxNow
    BY Constants DEF Zero
  <2>2. /\ present \in BOOLEAN /\ up \in BOOLEAN /\ sync \in BOOLEAN
        /\ ~present => kernel = Zero
    BY <1>2
  <2> HIDE DEF Zero
  <2>3. /\ kernel \in [Dir -> 0..KernelMax]
        /\ truth \in [Dir -> Nat] /\ wraps \in [Dir -> Nat]
        /\ now \in Nat /\ boot \in Nat
        /\ FirstBoot <= boot /\ boot <= now /\ now <= MaxNow
        /\ life \in Nat /\ slips \in 0..MaxSlips
    BY <1>2, <2>1, Constants
  <2> QED BY <2>2, <2>3 DEF Machine
<1>4. bt \in Nat /\ bt \in Word64 /\ boot <= bt /\ bt <= boot + BtimeNoise
  BY <1>2, Constants DEF Btimes, Word64
<1> DEFINE t == [dir \in Dir |-> [mb |-> 0, kb |-> 0]]
<1>5. file = [curr |-> Zero, total |-> t, lastupdated |-> now, btime |-> bt,
              active |-> TRUE, life |-> 0]
  BY <1>1, <1>2 DEF NewData
<1>6. Zero \in [Dir -> Word64] /\ t \in [Dir -> [mb : Nat, kb : 0..(K - 1)]]
  BY Constants DEF Zero, Word64
<1>7. file \in Data
  <2> HIDE DEF t
  <2> QED BY <1>2, <1>4, <1>5, <1>6, Constants DEF Data
<1>8. BootOK(file, boot)
  BY <1>2, <1>4, <1>5, Constants DEF BootOK
<1>9. ASSUME NEW dir \in Dir
      PROVE  /\ CurrOK(file.curr[dir])
             /\ Bytes(file, dir) + ClaimIn(file, dir, boot, kernel, present, life) <= Most[dir]
  <2>1. Bytes(file, dir) = 0
    BY <1>5, Constants DEF Bytes, InKB
  <2>2. ClaimIn(file, dir, boot, kernel, present, life) = 0
    BY <1>2, <1>5 DEF ClaimIn, Zero, countercalc
  <2>3. Most[dir] \in Nat
    BY <1>3, MostType
  <2>4. CurrOK(file.curr[dir])
    BY <1>5, Constants DEF CurrOK, Zero
  <2> QED BY <2>1, <2>2, <2>3, <2>4
<1>10. LifeOK(file, present, life)
  BY <1>2, <1>5 DEF LifeOK
<1> QED BY <1>2, <1>3, <1>7, <1>8, <1>9, <1>10 DEF IInv, Good, GoodIn

\* The record in the cache, and the one a pass of the daemon works on.
LEMMA CurrentGood ==
    ASSUME IInv
    PROVE  /\ Good(Current)
           /\ cache # NoData => Good(cache)
  BY DEF IInv, Current

\* A pass leaves a good record in the cache and, if it saves, in the file.
LEMMA PassKeeps ==
    ASSUME IInv, NEW d, Good(d), NEW saved \in BOOLEAN, Pass(d, saved),
           sync' \in BOOLEAN
    PROVE  IInv'
<1>1. Good(Written(d))
  BY WrittenGood DEF Good
<1>2. /\ cache' = Written(d) /\ (file' = Written(d) \/ file' = file)
      /\ UNCHANGED <<now, boot, kernel, present, up, history>>
  BY DEF Pass
<1>3. Machine'
  BY <1>2 DEF IInv, Machine, history
<1>4. Good(file)' /\ Good(cache)'
  BY <1>1, <1>2 DEF IInv, Good, Most, Allowance, history
<1> QED BY <1>3, <1>4 DEF IInv

\* A flush, and the command line, leave a record in the file that is good with
\* the room that a slip has made.
LEMMA FileKeeps ==
    ASSUME IInv, NEW h \in BOOLEAN, Slip(h), NEW d,
           Room(Most', h) => GoodIn(d, boot, kernel, present, Most', life),
           file' = d,
           cache' = cache \/ cache' = NoData,
           up' \in BOOLEAN, sync' \in BOOLEAN,
           UNCHANGED <<now, boot, kernel, present, truth, wraps, life>>
    PROVE  IInv'
<1>1. slips' \in 0..MaxSlips /\ Room(Most', h)
  BY SlipMost DEF IInv, Room
<1>2. Machine'
  BY <1>1 DEF IInv, Machine
<1>3. Good(file)'
  BY <1>1 DEF Good
<1>4. cache # NoData => GoodIn(cache, boot, kernel, present, Most', life)
  BY <1>1, RoomGood DEF IInv
<1>5. (cache = NoData \/ Good(cache))'
  BY <1>4 DEF Good
<1> QED BY <1>2, <1>3, <1>5 DEF IInv

\* Every step keeps the copies good.
LEMMA NextIInv == IInv /\ [Next]_vars => IInv'
<1> SUFFICES ASSUME IInv, [Next]_vars PROVE IInv'
  OBVIOUS
<1> DEFINE Frame == \A d \in Copies : \/ ~Good(d)
                                     \/ GoodIn(d, boot', kernel', present', Most', life')
<1>1. ASSUME Frame, Machine', UNCHANGED file, cache' = cache \/ cache' = NoData
      PROVE  IInv'
  <2>1. Good(file)'
    BY <1>1 DEF IInv, Good, Copies
  <2>2. cache = NoData \/ GoodIn(cache, boot', kernel', present', Most', life')
    BY <1>1 DEF IInv, Copies
  <2>3. (cache = NoData \/ Good(cache))'
    BY <1>1, <2>2 DEF Good
  <2> QED BY <1>1, <2>1, <2>3 DEF IInv
<1>2. ASSUME NEW dir \in Dir, NEW n \in Bursts[dir], Traffic(dir, n) PROVE IInv'
  <2>1. Frame
    BY <1>2, TrafficFrame DEF Good
  <2>2. Machine' /\ UNCHANGED <<file, cache>>
    BY <1>2, CurrentGood, TrafficFrame DEF Good, Traffic
  <2> QED BY <1>1, <2>1, <2>2
<1>3. ASSUME Tick PROVE IInv'
  <2>1. Machine'
    BY <1>3, Constants DEF Tick, IInv, Machine, history
  <2>2. Frame
    BY <1>3 DEF Tick, Good, Most, Allowance, history
  <2> QED BY <1>1, <1>3, <2>1, <2>2 DEF Tick
<1>4. ASSUME Start PROVE IInv'
  <2>1. Machine'
    BY <1>4 DEF Start, IInv, Machine, history
  <2>2. Frame
    BY <1>4 DEF Start, Good, Most, Allowance, history
  <2> QED BY <1>1, <1>4, <2>1, <2>2 DEF Start
<1>5. ASSUME Reboot PROVE IInv'
  <2>1. Frame
    BY <1>5, LossFrame
  <2>2. Zero \in [Dir -> 0..KernelMax]
    BY Constants DEF Zero
  <2>3. /\ kernel' = Zero /\ present' \in BOOLEAN /\ up' = FALSE /\ sync' = FALSE
        /\ boot' = now /\ boot < now /\ UNCHANGED <<now, truth, wraps, slips>>
        /\ life' = life + 1
        /\ cache' = NoData /\ UNCHANGED file
    <3>1. now > boot + BVar + BtimeNoise /\ now \in Nat /\ boot \in Nat
      BY <1>5 DEF Reboot, IInv, Machine
    <3>2. boot < now
      BY <3>1, Constants
    <3> QED BY <1>5, <3>2 DEF Reboot
  <2>4. /\ now \in Nat /\ boot \in Nat /\ FirstBoot <= boot /\ now <= MaxNow
        /\ truth \in [Dir -> Nat] /\ wraps \in [Dir -> Nat]
        /\ life \in Nat /\ slips \in 0..MaxSlips
    BY DEF IInv, Machine
  <2>5. FirstBoot <= now
    BY <2>3, <2>4, Constants
  <2>6. /\ now' \in Nat /\ boot' \in Nat
        /\ FirstBoot <= boot' /\ boot' <= now' /\ now' <= MaxNow
    BY <2>3, <2>4, <2>5
  <2>7. up' \in BOOLEAN /\ sync' \in BOOLEAN
    BY <2>3
  <2>8. /\ kernel' \in [Dir -> 0..KernelMax] /\ (~present' => kernel' = Zero')
        /\ truth' \in [Dir -> Nat] /\ wraps' \in [Dir -> Nat]
        /\ life' \in Nat /\ slips' \in 0..MaxSlips
    BY <2>2, <2>3, <2>4 DEF Zero
  <2>9. Machine'
    BY <2>3, <2>6, <2>7, <2>8 DEF Machine
  <2> QED BY <1>1, <2>1, <2>3, <2>9
<1>6. ASSUME Vanish PROVE IInv'
  <2>1. Frame
    BY <1>6, LossFrame
  <2>2. Zero \in [Dir -> 0..KernelMax]
    BY Constants DEF Zero
  <2>3. /\ kernel' = Zero /\ present' = FALSE /\ life' = life + 1
        /\ UNCHANGED <<now, boot, up, sync, cache, file, truth, wraps, slips>>
    BY <1>6 DEF Vanish
  <2>4. life' \in Nat /\ kernel' \in [Dir -> 0..KernelMax] /\ kernel' = Zero'
    BY <2>2, <2>3 DEF IInv, Machine, Zero
  <2>5. Machine'
    BY <2>3, <2>4 DEF IInv, Machine
  <2> QED BY <1>1, <2>1, <2>3, <2>5
<1>7. ASSUME Return PROVE IInv'
  <2>1. Frame
    BY <1>7, ReturnFrame
  <2>2. slips' \in 0..MaxSlips
    <3>1. Slip(\E d \in Copies : d.active /\ Stale(d)) /\ truth' = truth
      BY <1>7 DEF Return
    <3>2. (\E d \in Copies : d.active /\ Stale(d)) \in BOOLEAN
      OBVIOUS
    <3> QED BY <3>1, <3>2, SlipMost DEF IInv
  <2>3. Machine'
    BY <1>7, <2>2 DEF Return, IInv, Machine
  <2> QED BY <1>1, <1>7, <2>1, <2>3 DEF Return
<1>8. ASSUME NEW saved \in BOOLEAN, PassCount(saved) PROVE IInv'
  <2>1. PICK bt \in Btimes : Pass(parseifinfo(Current, bt), saved)
    BY <1>8 DEF PassCount
  <2>2. Good(parseifinfo(Current, bt))
    BY <1>8, CurrentGood, UpdateGood DEF PassCount
  <2>3. sync' \in BOOLEAN
    BY <1>8 DEF PassCount, IInv, Machine
  <2> QED BY <2>1, <2>2, <2>3, PassKeeps
<1>9. ASSUME NEW saved \in BOOLEAN, PassSync(saved) PROVE IInv'
  <2>1. Good(Synced(Current))
    BY <1>9, CurrentGood, SyncGood DEF PassSync
  <2> QED BY <1>9, <2>1, PassKeeps DEF PassSync
<1>10. ASSUME NEW saved \in BOOLEAN, PassUnavailable(saved) PROVE IInv'
  <2>1. Good([Current EXCEPT !.active = FALSE])
    BY CurrentGood, DisabledGood
  <2>2. sync' \in BOOLEAN
    BY <1>10 DEF PassUnavailable, IInv, Machine
  <2> QED BY <1>10, <2>1, <2>2, PassKeeps DEF PassUnavailable
<1>11. ASSUME NEW saved \in BOOLEAN, PassDisabled(saved) PROVE IInv'
  <2>1. sync' \in BOOLEAN
    BY <1>11 DEF PassDisabled, IInv, Machine
  <2> QED BY <1>11, <2>1, CurrentGood, PassKeeps DEF PassDisabled
<1>12. ASSUME dbcheck PROVE IInv'
  <2>1. /\ cache # NoData
        /\ cache' = [Reset(cache) EXCEPT !.active = present]
        /\ Slip(Counted(cache))
        /\ UNCHANGED <<now, boot, kernel, present, up, sync, file, truth, wraps, life>>
    BY <1>12 DEF dbcheck
  <2>2. Good(cache) /\ present \in BOOLEAN /\ Counted(cache) \in BOOLEAN
    BY <2>1, CurrentGood DEF IInv, Machine, Counted
  <2>3. slips' \in 0..MaxSlips /\ Room(Most', Counted(cache))
    BY <2>1, <2>2, SlipMost DEF IInv, Room
  <2>4. GoodIn([Reset(cache) EXCEPT !.active = present], boot, kernel, present, Most', life)
    BY <2>2, <2>3, ResetGood
  <2>5. GoodIn(file, boot, kernel, present, Most', life)
    BY <2>2, <2>3, RoomGood DEF IInv
  <2>6. Machine'
    BY <2>1, <2>3 DEF IInv, Machine
  <2>7. Good(file)' /\ Good(cache)'
    BY <2>1, <2>4, <2>5 DEF Good
  <2> QED BY <2>6, <2>7 DEF IInv
<1>13. ASSUME NEW flushed \in BOOLEAN, Hup(flushed) \/ Stop(flushed) PROVE IInv'
  <2>1. /\ up' \in BOOLEAN /\ sync' \in BOOLEAN /\ cache' = NoData
        /\ UNCHANGED <<now, boot, kernel, present, truth, wraps, life, slips>>
        /\ file' = IF flushed THEN Written(cache) ELSE file
        /\ flushed => cache # NoData
    BY <1>13 DEF Hup, Stop, IInv, Machine, history
  <2>2. Good(file')
    BY <2>1, CurrentGood, WrittenGood DEF IInv, Good
  <2>3. Slip(FALSE) /\ Most' = Most
    BY <2>1 DEF Slip, IInv, Machine, Most, Allowance
  <2>4. GoodIn(file', boot, kernel, present, Most', life)
    BY <2>2, <2>3 DEF Good
  <2> QED BY <2>1, <2>3, <2>4, FileKeeps
\* A command writes a record that is good in the room it has made.
<1>14. ASSUME NEW d, NEW h \in BOOLEAN, Cli(d, h),
              \A t : Room(t, h) => GoodIn(d, boot, kernel, present, t, life)
       PROVE  IInv'
  <2>1. up' \in BOOLEAN /\ sync' \in BOOLEAN /\ Slip(h) /\ file' = Written(d)
        /\ UNCHANGED <<now, boot, kernel, present, truth, wraps, life, cache>>
    BY <1>14 DEF Cli, IInv, Machine
  <2>2. Room(Most', h)
    BY <2>1, SlipMost DEF IInv, Room
  <2>3. GoodIn(Written(d), boot, kernel, present, Most', life)
    <3>1. GoodIn(d, boot, kernel, present, Most', life)
      BY <1>14, <2>2
    <3> QED BY <3>1, WrittenGood
  <2> QED BY <2>1, <2>3, FileKeeps
\* Without a slip it is good in the room there was.
<1>15. ASSUME NEW d, Good(d), Cli(d, FALSE) PROVE IInv'
  BY <1>14, <1>15, RoomGood
<1>16. ASSUME CliUpdate PROVE IInv'
  <2>1. PICK bt \in Btimes : Cli(parseifinfo(file, bt), FALSE)
    BY <1>16 DEF CliUpdate
  <2>2. Good(parseifinfo(file, bt))
    BY <1>16, UpdateGood DEF CliUpdate, IInv
  <2> QED BY <1>15, <2>1, <2>2
<1>17. ASSUME CliSync PROVE IInv'
  <2>1. Good(Synced(file))
    BY <1>17, SyncGood DEF IInv, CliSync
  <2> QED BY <1>15, <1>17, <2>1 DEF CliSync
<1>18. ASSUME CliReset PROVE IInv'
  <2>1. file \in Data /\ Counted(file) \in BOOLEAN
    BY DEF IInv, Good, GoodIn, Counted
  <2>2. [Reset(file) EXCEPT !.active = file.active] = Reset(file) /\ file.active \in BOOLEAN
    BY <2>1 DEF Reset, Data
  <2>3. \A t : Room(t, Counted(file)) => GoodIn(Reset(file), boot, kernel, present, t, life)
    BY <2>1, <2>2, ResetGood DEF IInv
  <2> QED BY <1>14, <1>18, <2>1, <2>3 DEF CliReset
<1>19. ASSUME CliDisable PROVE IInv'
  <2>1. Good([file EXCEPT !.active = FALSE])
    BY DisabledGood DEF IInv
  <2> QED BY <1>15, <1>19, <2>1 DEF CliDisable
<1>20. ASSUME CliEnable PROVE IInv'
  <2> DEFINE h == present /\ Stale(file)
  <2>1. ~file.active /\ Cli([file EXCEPT !.active = TRUE], h) /\ h \in BOOLEAN
    BY <1>20 DEF CliEnable, IInv, Machine
  <2>2. \A t : Room(t, h) => GoodIn([file EXCEPT !.active = TRUE], boot, kernel, present, t, life)
    BY <2>1, EnabledGood DEF IInv
  <2> HIDE DEF h
  <2> QED BY <1>14, <2>1, <2>2
<1>21. CASE UNCHANGED vars
  BY <1>21 DEF vars, history, IInv, Machine, Good, Most, Allowance
<1> QED
  BY <1>2, <1>3, <1>4, <1>5, <1>6, <1>7, <1>8, <1>9, <1>10, <1>11, <1>12, <1>13,
     <1>16, <1>17, <1>18, <1>19, <1>20, <1>21
     DEF Next, Monitoring, Passes, Flushes, CommandLine
-----------------------------------------------------------------------------
(***************************************************************************)
(* The theorems.                                                           *)
(***************************************************************************)

\* The inductive invariant holds throughout.
LEMMA Invariance == Spec => []IInv
  BY InitIInv, NextIInv, PTL DEF Spec

\* Each variable stays in its range: parseifinfo, the saves and the command
\* line never leave a record whose KiB part has overflowed or whose counters
\* do not fit in 64 bits.
THEOREM TypeCorrect == Spec => []TypeOK
<1>1. IInv => TypeOK
  BY DEF IInv, Machine, Good, GoodIn, TypeOK
<1> QED BY Invariance, <1>1, PTL

\* Every copy is good.
LEMMA CopiesGood ==
    ASSUME IInv, NEW d \in Copies
    PROVE  Good(d)
<1>1. d = file \/ (d = cache /\ cache # NoData)
  BY DEF Copies
<1> QED BY <1>1 DEF IInv

\* What the next update finds is charged for.
LEMMA DueCharged ==
    ASSUME IInv, NEW d \in Copies, NEW dir \in Dir
    PROVE  /\ Bytes(d, dir) \in Nat /\ Due(d, dir) \in Nat
           /\ Bytes(d, dir) + Due(d, dir) <= truth[dir] + Allowance
<1> DEFINE claim == ClaimIn(d, dir, boot, kernel, present, life)
           cc == countercalc(d.curr[dir], kernel[dir])
<1>1. /\ d \in Data /\ kernel \in [Dir -> 0..KernelMax]
      /\ Bytes(d, dir) + claim <= Most[dir]
  BY CopiesGood DEF Good, GoodIn, IInv, Machine
<1>2. Bytes(d, dir) \in Nat /\ claim \in Nat
  BY <1>1, BytesType, ClaimType
<1>3. cc \in Nat /\ kernel[dir] \in Nat
  <2>1. d.curr[dir] \in Word64 /\ kernel[dir] \in Word64
    BY <1>1, Constants DEF Data, Word64
  <2> QED BY <2>1, CounterCalcType, WordIsNat
<1>4. Due(d, dir) = claim \/ (Due(d, dir) = cc /\ claim = Larger(cc, kernel[dir]))
  BY DEF Due, ClaimIn
<1>5. Most[dir] = truth[dir] + Allowance /\ Most[dir] \in Nat
  BY MostType DEF IInv
<1> HIDE DEF claim, cc
<1>6. Due(d, dir) \in Nat /\ Due(d, dir) <= claim
  BY <1>2, <1>3, <1>4 DEF Larger
<1>7. Bytes(d, dir) + Due(d, dir) <= Most[dir]
  BY <1>1, <1>2, <1>5, <1>6
<1> QED BY <1>2, <1>5, <1>6, <1>7

\* No copy of the record claims more than passed, or will after its next
\* update, except for one counter's width for each slip: an interface gone and
\* back unnoticed, --enable of counters from before it was gone, counters
\* forgotten (-r, dbcheck after --disable) that had not begun anew.
THEOREM ConservativeAlways == Spec => []Conservative
<1>1. IInv => Conservative
  BY DueCharged DEF Conservative
<1> QED BY Invariance, <1>1, PTL

\* So no copy ever claims more than passed but for the slips, through crashes,
\* stale files, wraps, reboots and disappearances.
THEOREM NoOvercountAlways == Spec => []NoOvercount
<1>1. IInv => NoOvercount
  <2> SUFFICES ASSUME IInv, NEW d \in Copies, NEW dir \in Dir
               PROVE  Bytes(d, dir) <= truth[dir] + Allowance
    BY DEF NoOvercount
  <2>1. truth[dir] + Allowance \in Nat
    BY MostType DEF IInv, Machine
  <2> QED BY <2>1, DueCharged
<1> QED BY Invariance, <1>1, PTL

\* In particular, as long as nothing has slipped, no byte is counted twice.
THEOREM NoByteTwice == Spec => [](slips = 0 =>
    \A d \in Copies : \A dir \in Dir : Bytes(d, dir) + Due(d, dir) <= truth[dir])
<1>1. IInv => (slips = 0 =>
    \A d \in Copies : \A dir \in Dir : Bytes(d, dir) + Due(d, dir) <= truth[dir])
  <2> SUFFICES ASSUME IInv, slips = 0, NEW d \in Copies, NEW dir \in Dir
               PROVE  Bytes(d, dir) + Due(d, dir) <= truth[dir]
    OBVIOUS
  <2>1. Allowance = 0 /\ truth[dir] \in Nat
    BY Constants DEF Allowance, IInv, Machine
  <2> QED BY <2>1, DueCharged
<1> QED BY Invariance, <1>1, PTL

\* A reboot since the last update is always noticed, and never imagined.
THEOREM BootDetectionAlways == Spec => []BootDetection
<1>1. IInv => BootDetection
  <2> SUFFICES ASSUME IInv, NEW d \in Copies, NEW bt \in Btimes
               PROVE  Booted(d, bt) <=> d.btime < boot
    BY DEF BootDetection
  <2>1. d \in Data /\ BootOK(d, boot)
    BY CopiesGood DEF Good, GoodIn
  <2> QED BY <2>1, BootedExactly
<1> QED BY Invariance, <1>1, PTL
-----------------------------------------------------------------------------
(***************************************************************************)
(* The order of the copies.  A record never loses bytes on its way through *)
(* an update, and the file is only written while it is not ahead.          *)
(***************************************************************************)

\* The file does not claim more than the cache, no copy is from the future,
\* and only a daemon that runs has a cache.
Ahead ==
    /\ file.lastupdated <= now
    /\ cache # NoData =>
          /\ up
          /\ cache.lastupdated <= now
          /\ \A dir \in Dir : Bytes(file, dir) <= Bytes(cache, dir)

\* A step takes at most what the limit allows from record d to record e.
Limited(d, e) ==
    MaxBw > 0 =>
        \A dir \in Dir :
            MBPart(Bytes(e, dir) - Bytes(d, dir)) <= MaxTransfer(MaxBw, Interval(d))

\* A record is not the mark of an empty cache.
LEMMA RecordIsData ==
    ASSUME NEW d \in Data
    PROVE  d # NoData
  BY DEF Data, NoData

\* The record a pass works on is one, and not from the future.
LEMMA CurrentTimely ==
    ASSUME IInv, Ahead
    PROVE  /\ Current \in Data
           /\ Interval(Current) \in Nat
<1>1. Current \in Data
  BY CurrentGood DEF Good, GoodIn
<1>2. Current.lastupdated <= now
  BY DEF Ahead, Current
<1>3. Current.lastupdated \in Nat /\ now \in Nat
  BY <1>1 DEF Data, IInv, Machine
<1> QED BY <1>1, <1>2, <1>3 DEF Interval

\* A record that claims no more than another is within any limit.
LEMMA NoMoreLimited ==
    ASSUME NEW d \in Data, NEW e \in Data, Interval(d) \in Nat,
           \A dir \in Dir : Bytes(e, dir) <= Bytes(d, dir)
    PROVE  Limited(d, e)
<1> SUFFICES ASSUME MaxBw > 0, NEW dir \in Dir
             PROVE  MBPart(Bytes(e, dir) - Bytes(d, dir)) <= MaxTransfer(MaxBw, Interval(d))
  BY DEF Limited
<1> DEFINE diff == Bytes(e, dir) - Bytes(d, dir)
<1>1. diff \in Int /\ diff <= 0
  BY BytesType
<1>2. K * K \in Nat \ {0}
  BY Constants
<1> HIDE DEF diff
<1>3. diff \div (K * K) <= 0 \div (K * K)
  BY <1>1, <1>2, DivMonotone
<1>4. 0 \div (K * K) = 0
  BY <1>2
<1>5. MaxTransfer(MaxBw, Interval(d)) \in Nat
  <2>1. 11 * MaxBw * Interval(d) \in Nat
    BY AccountingAssumption
  <2> QED BY <2>1 DEF MaxTransfer
<1>6. diff \div (K * K) \in Int
  BY <1>1, <1>2
<1> QED BY <1>3, <1>4, <1>5, <1>6 DEF MBPart, diff

\* An update adds to a record, by no more than the limit allows.
LEMMA UpdateAdds ==
    ASSUME IInv, NEW d, Good(d), d.active, present, NEW bt \in Btimes, Interval(d) \in Nat
    PROVE  /\ parseifinfo(d, bt) \in Data
           /\ parseifinfo(d, bt).lastupdated = d.lastupdated
           /\ \A dir \in Dir : Bytes(d, dir) <= Bytes(parseifinfo(d, bt), dir)
           /\ Limited(d, parseifinfo(d, bt))
<1> DEFINE e == parseifinfo(d, bt)
<1>1. d \in Data /\ e \in Data
  BY UpdateGood DEF Good, GoodIn
<1>2. e.lastupdated = d.lastupdated
  BY DEF parseifinfo
<1>3. ASSUME NEW dir \in Dir
      PROVE  /\ Bytes(d, dir) <= Bytes(e, dir)
             /\ MaxBw > 0 => MBPart(Bytes(e, dir) - Bytes(d, dir))
                                <= MaxTransfer(MaxBw, Interval(d))
  <2> DEFINE cc == Credit(d, bt, dir)
  <2>1. d.curr[dir] \in Word64 /\ kernel[dir] \in Word64 /\ 0 \in Word64
    BY <1>1, Constants DEF Data, IInv, Machine, Word64
  <2>2. Change(d, bt, dir) \in Word64
    BY <2>1, CounterCalcType DEF Change
  <2>3. cc \in Nat /\ (cc = 0 \/ (cc = Change(d, bt, dir) /\ ~OverLimit(d, bt)))
    <3>1. cc = 0 \/ (cc = Change(d, bt, dir) /\ ~OverLimit(d, bt))
      BY DEF Credit, Counts
    <3> QED BY <2>2, <3>1, WordIsNat
  <2>4. /\ e.total[dir] = addtraffic(d.total[dir], MBPart(cc), KBPart(cc))
        /\ d.total[dir] \in [mb : Nat, kb : 0..(K - 1)]
    BY <1>1 DEF parseifinfo, Data
  <2>5. Bytes(d, dir) \in Nat /\ Bytes(e, dir) \in Nat
    BY <1>1, BytesType
  <2>12. MaxTransfer(MaxBw, Interval(d)) \in Nat
    <3>1. 11 * MaxBw * Interval(d) \in Nat
      BY AccountingAssumption
    <3> QED BY <3>1 DEF MaxTransfer
  <2>13. MaxBw > 0 => MBPart(cc) <= MaxTransfer(MaxBw, Interval(d))
    <3>1. CASE cc = 0
      <4>1. 0 \div (K * K) = 0
        BY Constants
      <4> QED BY <2>12, <3>1, <4>1 DEF MBPart
    <3>2. CASE cc = Change(d, bt, dir) /\ ~OverLimit(d, bt)
      <4>1. MBPart(Change(d, bt, dir)) \in Nat
        BY <2>2, WordIsNat, ChangeParts
      <4> QED BY <2>12, <3>2, <4>1 DEF OverLimit
    <3> QED BY <2>3, <3>1, <3>2
  <2> HIDE DEF cc, e
  <2>6. /\ BytePart(cc) \in 0..(K - 1)
        /\ Bytes(e, dir) + BytePart(cc) = Bytes(d, dir) + cc
    BY <2>3, <2>4, CreditTotal DEF Bytes
  <2>7. BytePart(cc) <= cc
    <3>1. cc = K * (cc \div K) + BytePart(cc) /\ cc \div K \in Nat
      BY <2>3, DivModNat, Constants DEF BytePart
    <3>2. K * (cc \div K) \in Nat
      BY <3>1, Constants
    <3> QED BY <2>3, <2>6, <3>1, <3>2, Constants
  <2>8. /\ Bytes(d, dir) <= Bytes(e, dir)
        /\ Bytes(e, dir) - Bytes(d, dir) <= cc
        /\ Bytes(e, dir) - Bytes(d, dir) \in Int
    BY <2>3, <2>5, <2>6, <2>7, Constants
  <2>9. K * K \in Nat \ {0}
    BY Constants
  <2>10. MBPart(Bytes(e, dir) - Bytes(d, dir)) <= MBPart(cc)
    BY <2>3, <2>8, <2>9, DivMonotone DEF MBPart
  <2>11. MBPart(Bytes(e, dir) - Bytes(d, dir)) \in Int /\ MBPart(cc) \in Int
    BY <2>3, <2>8, <2>9 DEF MBPart
  <2> QED BY <2>8, <2>10, <2>11, <2>12, <2>13
<1> QED BY <1>1, <1>2, <1>3 DEF Limited

\* Another record with the same totals claims the same.
LEMMA SameBytes ==
    ASSUME NEW d, NEW e, e.total = d.total, NEW dir \in Dir
    PROVE  Bytes(e, dir) = Bytes(d, dir)
  BY DEF Bytes

\* A save stamps the record, and claims the same.
LEMMA WrittenTimely ==
    ASSUME IInv, NEW d \in Data
    PROVE  /\ Written(d) \in Data /\ Written(d) # NoData
           /\ Written(d).lastupdated = now
           /\ Written(d).total = d.total
<1>1. now \in Nat
  BY DEF IInv, Machine
<1>2. Written(d) = [curr |-> d.curr, total |-> d.total, lastupdated |-> now,
                    btime |-> d.btime, active |-> d.active, life |-> d.life]
  BY Fields DEF Written
<1>3. Written(d) \in Data
  BY <1>1, <1>2 DEF Data
<1> QED BY <1>2, <1>3, RecordIsData

\* A pass or a command on a record that claims no less than the current one
\* keeps the order and, if it stays within the limit, does so as well.
LEMMA PassAhead ==
    ASSUME IInv, Ahead, NEW d \in Data, NEW saved \in BOOLEAN, Pass(d, saved),
           \A dir \in Dir : Bytes(Current, dir) <= Bytes(d, dir),
           Limited(Current, d)
    PROVE  Ahead' /\ Limited(Current, Current')
<1> DEFINE w == Written(d)
<1>1. /\ w \in Data /\ w # NoData /\ w.lastupdated = now
      /\ \A dir \in Dir : Bytes(w, dir) = Bytes(d, dir)
  BY WrittenTimely, SameBytes
<1>2. /\ up' /\ now' = now /\ cache' = w /\ file' \in {w, file} /\ now \in Nat
  BY DEF Pass, IInv, Machine
<1> HIDE DEF w
<1>3. \A dir \in Dir : Bytes(file, dir) <= Bytes(w, dir)
  <2> SUFFICES ASSUME NEW dir \in Dir PROVE Bytes(file, dir) <= Bytes(w, dir)
    OBVIOUS
  <2>1. Bytes(file, dir) <= Bytes(Current, dir)
    <3>1. file \in Data
      BY DEF IInv, Good, GoodIn
    <3>2. Bytes(file, dir) \in Nat
      BY <3>1, BytesType
    <3> QED BY <3>2 DEF Ahead, Current
  <2>2. file \in Data /\ Current \in Data
    BY CurrentTimely DEF IInv, Good, GoodIn
  <2>3. Bytes(file, dir) \in Nat /\ Bytes(Current, dir) \in Nat /\ Bytes(d, dir) \in Nat
    BY <2>2, BytesType
  <2> QED BY <1>1, <2>1, <2>3
<1>4. \A dir \in Dir : Bytes(w, dir) <= Bytes(w, dir)
  BY <1>1, BytesType
<1>5. Ahead'
  <2>1. \A dir \in Dir : Bytes(file', dir) <= Bytes(cache', dir)
    BY <1>2, <1>3, <1>4
  <2>2. file'.lastupdated <= now' /\ cache'.lastupdated <= now'
    BY <1>1, <1>2 DEF Ahead
  <2>3. (\A dir \in Dir : Bytes(file, dir) <= Bytes(cache, dir))'
    BY <2>1 DEF Bytes
  <2> QED BY <1>2, <2>2, <2>3 DEF Ahead
<1>6. Current' = w
  BY <1>1, <1>2 DEF Current
<1> QED BY <1>1, <1>5, <1>6 DEF Limited

\* The same of a command, which works on the file of a daemon that is down.
LEMMA CliAhead ==
    ASSUME IInv, Ahead, NEW d \in Data, NEW h, Cli(d, h), Limited(file, d)
    PROVE  Ahead' /\ Limited(Current, Current')
<1>1. /\ Written(d).lastupdated = now /\ now \in Nat
      /\ \A dir \in Dir : Bytes(Written(d), dir) = Bytes(d, dir)
  BY WrittenTimely, SameBytes DEF IInv, Machine
<1>2. cache = NoData /\ cache' = NoData /\ now' = now /\ file' = Written(d)
  BY DEF Cli, Ahead
<1>3. Ahead'
  BY <1>1, <1>2 DEF Ahead
<1>4. Current = file /\ Current' = Written(d)
  BY <1>2 DEF Current
<1> QED BY <1>1, <1>3, <1>4 DEF Limited

\* A step that leaves every copy as it is, or loses the cache, written or not.
LEMMA LosesCache ==
    ASSUME IInv, Ahead, now' \in Nat, now' >= now,
           \/ cache' = cache /\ file' = file /\ (up => up')
           \/ cache' = NoData /\ file' = file
           \/ cache' = NoData /\ cache # NoData /\ file' = Written(cache) /\ now' = now
    PROVE  Ahead' /\ Limited(Current, Current')
<1>1. file \in Data /\ (cache # NoData => cache \in Data) /\ now \in Nat
  BY CurrentGood DEF IInv, Machine, Good, GoodIn
<1>2. /\ file.lastupdated \in Nat /\ file.lastupdated <= now'
      /\ cache # NoData => cache.lastupdated \in Nat /\ cache.lastupdated <= now'
  BY <1>1 DEF Data, Ahead
<1>3. /\ Current \in Data /\ Interval(Current) \in Nat
  BY CurrentTimely
<1>4. CASE cache' = cache /\ file' = file /\ (up => up')
  <2>1. Ahead'
    BY <1>2, <1>4 DEF Ahead, Bytes
  <2>2. \A dir \in Dir : Bytes(Current, dir) <= Bytes(Current, dir)
    BY <1>3, BytesType
  <2>3. Limited(Current, Current)
    BY <1>3, <2>2, NoMoreLimited
  <2> QED BY <1>4, <2>1, <2>3 DEF Current
<1>5. CASE cache' = NoData /\ file' = file
  <2>1. Ahead'
    BY <1>2, <1>5 DEF Ahead
  <2>2. \A dir \in Dir : Bytes(file, dir) <= Bytes(Current, dir)
    BY <1>1, BytesType DEF Ahead, Current
  <2>3. Limited(Current, file)
    BY <1>1, <1>3, <2>2, NoMoreLimited
  <2> QED BY <1>5, <2>1, <2>3 DEF Current
<1>6. CASE cache' = NoData /\ cache # NoData /\ file' = Written(cache) /\ now' = now
  <2>1. /\ Written(cache) \in Data /\ Written(cache).lastupdated = now
        /\ \A dir \in Dir : Bytes(Written(cache), dir) = Bytes(cache, dir)
    BY <1>1, <1>6, WrittenTimely, SameBytes
  <2>2. Ahead'
    BY <1>1, <1>6, <2>1 DEF Ahead
  <2>3. Current = cache
    BY <1>6 DEF Current
  <2>4. \A dir \in Dir : Bytes(Written(cache), dir) <= Bytes(cache, dir)
    BY <1>1, <1>6, <2>1, BytesType
  <2>5. Limited(Current, Written(cache))
    BY <1>3, <2>1, <2>3, <2>4, NoMoreLimited
  <2>6. Current' = Written(cache)
    BY <1>6 DEF Current
  <2> QED BY <2>2, <2>5, <2>6
<1> QED BY <1>4, <1>5, <1>6

\* Every step keeps the order of the copies, and the limit.
LEMMA NextAhead ==
    ASSUME IInv, Ahead, [Next]_vars
    PROVE  Ahead' /\ Limited(Current, Current')
<1> DEFINE Goal == Ahead' /\ Limited(Current, Current')
<1>1. /\ now \in Nat /\ now >= now /\ now + 1 >= now /\ now + 1 \in Nat
      /\ Current \in Data /\ Interval(Current) \in Nat
  BY CurrentTimely DEF IInv, Machine
<1>2. file \in Data
  BY DEF IInv, Good, GoodIn
\* A record with the totals of the current one.
<1>3. ASSUME NEW d \in Data, d.total = Current.total
      PROVE  /\ \A dir \in Dir : Bytes(Current, dir) <= Bytes(d, dir)
             /\ Limited(Current, d)
  <2>1. \A dir \in Dir : /\ Bytes(Current, dir) \in Nat
                         /\ Bytes(d, dir) = Bytes(Current, dir)
    BY <1>1, <1>3, BytesType, SameBytes
  <2>2. \A dir \in Dir : /\ Bytes(d, dir) <= Bytes(Current, dir)
                         /\ Bytes(Current, dir) <= Bytes(d, dir)
    BY <2>1
  <2> QED BY <1>1, <2>2, NoMoreLimited
\* The environment, and the ends of the daemon.
<1>4. ASSUME NEW dir \in Dir, NEW n \in Bursts[dir], Traffic(dir, n) PROVE Goal
  BY <1>1, <1>4, LosesCache DEF Traffic
<1>5. CASE Tick
  BY <1>1, <1>5, LosesCache DEF Tick
<1>6. CASE Start
  BY <1>1, <1>6, LosesCache DEF Start
<1>7. CASE Reboot
  BY <1>1, <1>7, LosesCache DEF Reboot
<1>8. CASE Vanish \/ Return
  <2>1. now' = now /\ cache' = cache /\ file' = file /\ up' = up
    BY <1>8 DEF Vanish, Return
  <2> QED BY <1>1, <2>1, LosesCache
<1>9. ASSUME NEW flushed \in BOOLEAN, Hup(flushed) \/ Stop(flushed) PROVE Goal
  BY <1>1, <1>9, LosesCache DEF Hup, Stop
\* The passes.
<1>10. ASSUME NEW saved \in BOOLEAN, PassCount(saved) PROVE Goal
  <2>1. PICK bt \in Btimes : Pass(parseifinfo(Current, bt), saved)
    BY <1>10 DEF PassCount
  <2>2. Current.active /\ present
    BY <1>10 DEF PassCount
  <2>3. /\ parseifinfo(Current, bt) \in Data
        /\ \A dir \in Dir : Bytes(Current, dir) <= Bytes(parseifinfo(Current, bt), dir)
        /\ Limited(Current, parseifinfo(Current, bt))
    BY <1>1, <2>2, CurrentGood, UpdateAdds
  <2> QED BY <2>1, <2>3, PassAhead
<1>11. ASSUME NEW saved \in BOOLEAN, PassSync(saved) PROVE Goal
  <2>1. Synced(Current) \in Data
    BY <1>11, CurrentGood, SyncGood DEF PassSync, Good, GoodIn
  <2>2. Synced(Current).total = Current.total
    BY <1>1, Fields DEF Synced
  <2> QED BY <1>3, <1>11, <2>1, <2>2, PassAhead DEF PassSync
<1>12. ASSUME NEW saved \in BOOLEAN, PassUnavailable(saved) PROVE Goal
  <2>1. [Current EXCEPT !.active = FALSE] \in Data
    BY CurrentGood, DisabledGood DEF Good, GoodIn
  <2>2. [Current EXCEPT !.active = FALSE].total = Current.total
    BY <1>1, Fields
  <2> QED BY <1>3, <1>12, <2>1, <2>2, PassAhead DEF PassUnavailable
<1>13. ASSUME NEW saved \in BOOLEAN, PassDisabled(saved) PROVE Goal
  BY <1>1, <1>3, <1>13, PassAhead DEF PassDisabled
<1>14. CASE dbcheck
  <2>1. /\ cache # NoData /\ up /\ up' = up /\ now' = now /\ file' = file
        /\ cache' = [Reset(cache) EXCEPT !.active = present]
        /\ cache.active # present
    BY <1>14 DEF dbcheck
  <2>2. cache \in Data /\ Current = cache
    BY <1>1, <2>1 DEF Current
  <2>3. /\ cache' = [curr |-> Zero, total |-> cache.total,
                     lastupdated |-> cache.lastupdated,
                     btime |-> cache.btime, active |-> present, life |-> cache.life]
    BY <2>1, <2>2 DEF Reset, Data
  <2>4. Zero \in [Dir -> Word64] /\ present \in BOOLEAN
    BY Constants DEF Zero, Word64, IInv, Machine
  <2>5. cache' \in Data
    BY <2>2, <2>3, <2>4 DEF Data
  <2>6. cache' # NoData /\ Current' = cache'
    BY <2>5, RecordIsData DEF Current
  <2>7. /\ cache'.total = Current.total /\ cache'.lastupdated = cache.lastupdated
    BY <2>2, <2>3
  <2>8. \A dir \in Dir : Bytes(cache', dir) = Bytes(cache, dir)
    BY <2>2, <2>7, SameBytes
  <2>9. (\A dir \in Dir : Bytes(file, dir) <= Bytes(cache, dir))'
    <3>1. \A dir \in Dir : Bytes(file', dir) <= Bytes(cache', dir)
      BY <2>1, <2>8 DEF Ahead
    <3> QED BY <3>1 DEF Bytes
  <2>10. Ahead'
    BY <2>1, <2>7, <2>9 DEF Ahead
  <2> QED BY <1>3, <2>5, <2>6, <2>7, <2>10
\* The command line, on the file of a daemon that is down.
<1>15. ASSUME ~up PROVE Current = file
  BY <1>15 DEF Ahead, Current
<1>16. CASE CliUpdate
  <2>1. PICK bt \in Btimes : Cli(parseifinfo(file, bt), FALSE)
    BY <1>16 DEF CliUpdate
  <2>2. /\ Current = file /\ file.active /\ present
    BY <1>15, <1>16, <2>1 DEF CliUpdate, Cli
  <2>3. /\ parseifinfo(file, bt) \in Data
        /\ Limited(file, parseifinfo(file, bt))
    BY <1>1, <2>2, CurrentGood, UpdateAdds
  <2> QED BY <2>1, <2>3, CliAhead
<1>17. CASE CliSync
  <2>1. Cli(Synced(file), FALSE) /\ Current = file /\ present
    BY <1>15, <1>17 DEF CliSync, Cli
  <2>2. Synced(file) \in Data
    BY <2>1, SyncGood DEF IInv, Good, GoodIn
  <2>3. Synced(file).total = Current.total
    BY <1>2, <2>1, Fields DEF Synced
  <2> QED BY <1>3, <2>1, <2>2, <2>3, CliAhead
<1>18. CASE CliReset
  <2>1. Cli(Reset(file), Counted(file)) /\ Current = file
    BY <1>15, <1>18 DEF CliReset, Cli
  <2>2. Zero \in [Dir -> Word64]
    BY Constants DEF Zero, Word64
  <2>3. Reset(file) \in Data /\ Reset(file).total = Current.total
    BY <1>2, <2>1, <2>2 DEF Reset, Data
  <2> QED BY <1>3, <2>1, <2>3, CliAhead
<1>19. ASSUME CliDisable \/ CliEnable PROVE Goal
  <2>1. PICK a \in BOOLEAN : \E h : Cli([file EXCEPT !.active = a], h)
    BY <1>19 DEF CliDisable, CliEnable
  <2>2. Current = file
    BY <1>15, <2>1 DEF Cli
  <2>3. [file EXCEPT !.active = a] \in Data /\ [file EXCEPT !.active = a].total = Current.total
    BY <1>2, <2>2 DEF Data
  <2> QED BY <1>3, <2>1, <2>2, <2>3, CliAhead
<1>20. CASE UNCHANGED vars
  BY <1>1, <1>20, LosesCache DEF vars
<1> QED
  BY <1>4, <1>5, <1>6, <1>7, <1>8, <1>9, <1>10, <1>11, <1>12, <1>13, <1>14, <1>16,
     <1>17, <1>18, <1>19, <1>20
     DEF Next, Monitoring, Passes, Flushes, CommandLine

\* The initial record is of this moment, and there is no cache.
LEMMA InitAhead == Init => Ahead
<1> SUFFICES ASSUME Init PROVE Ahead
  OBVIOUS
<1>1. file.lastupdated = FirstBoot /\ now = FirstBoot /\ cache = NoData
  BY DEF Init, NewData
<1> QED BY <1>1, Constants DEF Ahead

\* The copies are in order throughout.
LEMMA OrderInvariance == Spec => [](IInv /\ Ahead)
<1>1. Init => IInv /\ Ahead
  BY InitIInv, InitAhead
<1>2. IInv /\ Ahead /\ [Next]_vars => (IInv /\ Ahead)'
  BY NextIInv, NextAhead
<1> QED BY <1>1, <1>2, PTL DEF Spec

\* The file of a running daemon never claims more than its cache: no save is
\* overtaken by an older one.
THEOREM CacheAheadAlways == Spec => []CacheAhead
<1>1. Ahead => CacheAhead
  BY DEF Ahead, CacheAhead
<1> QED BY OrderInvariance, <1>1, PTL

\* No step moves a total by more than the bandwidth limit allows for the time
\* since the previous update, whatever the counters seem to say.
THEOREM RateLimitedAlways == Spec => RateLimited
<1>1. IInv /\ Ahead /\ [Next]_vars =>
        [MaxBw > 0 =>
          \A dir \in Dir :
              MBPart(Bytes(Current', dir) - Bytes(Current, dir))
                  <= MaxTransfer(MaxBw, Interval(Current))]_vars
  BY NextAhead DEF Limited
<1> QED BY OrderInvariance, <1>1, PTL DEF Spec, RateLimited
=============================================================================
