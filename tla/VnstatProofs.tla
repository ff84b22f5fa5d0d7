---------------------------- MODULE VnstatProofs ----------------------------
(***************************************************************************)
(* Proofs about Vnstat: the live monitor, for counters of any width and    *)
(* any number of samples and packets; which databases a call changes and   *)
(* shows, whatever its arguments are and whatever databases there are; and *)
(* the disk report, for any devices, slots and rounds.                     *)
(***************************************************************************)
EXTENDS Vnstat, CounterLemmas, FiniteSetTheorems

\* What a step of the whole command does to the live monitor's variables.
LiveStep ==
    \/ LiveNext \/ LiveStart
    \/ \E sampletime : TrafficStart(sampletime)

\* The rest of the command leaves them alone.
LEMMA StepsOfLive == [Next]_vars => [LiveStep]_lvars
<1> SUFFICES ASSUME [Next]_vars PROVE [LiveStep]_lvars
  OBVIOUS
<1>1. CASE Main \/ CallDisk \/ Report \/ UNCHANGED vars
  BY <1>1 DEF Main, CallDisk, Report, vars
<1>2. CASE CallTraffic \/ CallLive \/ Monitor
  BY <1>2 DEF CallTraffic, CallLive, Monitor, LiveStep
<1> QED BY <1>1, <1>2 DEF Next

(***************************************************************************)
(* The child of the live display.                                          *)
(***************************************************************************)

\* It is not one of root's that found its parent gone when it began to run.
Knows == ppid = "vnstat" \/ ~root

\* Packets count as late once the parent is gone; such a child comes back to
\* the socket only from a look at a parent that was there.
ChildInv ==
    /\ late \in Nat
    /\ lpc # "gone" => late = 0
    /\ lpc = "off" => child = "none"
    /\ child \in {"none", "started"} => late = 0
    /\ Knows => late <= 1 /\ (child = "receive" => late = 0)

\* Initially there is no child.
LEMMA ChildInit == Init => ChildInv
  BY DEF Init, LiveInit, ChildInv

\* No step makes such a child handle a second packet.
LEMMA ChildNext == ChildInv /\ [LiveStep]_lvars => ChildInv'
<1> SUFFICES ASSUME ChildInv, [LiveStep]_lvars PROVE ChildInv'
  OBVIOUS
<1>1. CASE UNCHANGED lvars
  BY <1>1 DEF lvars, ChildInv, Knows
<1>2. CASE Bytes
  BY <1>2 DEF Bytes, parentvars, childvars, ChildInv, Knows
<1>3. CASE TrafficEnd \/ LoopHead \/ Wake \/ Interrupt \/ Killed
  BY <1>3 DEF TrafficEnd, LoopHead, Wake, Interrupt, Killed, childvars, ChildInv, Knows
<1>4. CASE Learns
  BY <1>4 DEF Learns, parentvars, ChildInv, Knows
<1>5. CASE Receive
  BY <1>5 DEF Receive, parentvars, ChildInv, Knows
<1>6. CASE GoesOn
  BY <1>6 DEF GoesOn, Alive, parentvars, ChildInv, Knows
<1>7. CASE LiveStart
  BY <1>7 DEF LiveStart, Begin, ChildInv, Knows
<1>8. ASSUME NEW sampletime, TrafficStart(sampletime) PROVE ChildInv'
  BY <1>8 DEF TrafficStart, Begin, ChildInv, Knows
<1> QED BY <1>1, <1>2, <1>3, <1>4, <1>5, <1>6, <1>7, <1>8 DEF LiveStep, LiveNext

\* A child that knew its parent, or that is not root's, handles at most one
\* packet after its parent is gone, however the two interleave.
THEOREM OneMorePacketAlways == Spec => []OneMorePacket
<1>1. ChildInv => OneMorePacket
  BY DEF ChildInv, Knows, OneMorePacket
<1> QED BY ChildInit, ChildNext, StepsOfLive, <1>1, PTL DEF Spec

-----------------------------------------------------------------------------
(***************************************************************************)
(* What a measurement counts.                                              *)
(***************************************************************************)

Measuring == lpc \in {"sampling", "head", "asleep"}

\* The counter is where the last reading and the bytes since have brought it,
\* at most one wrap further on.
ReadingInv ==
    /\ nic \in [count : Nat, max : {FP32, FP64}] /\ nic.count <= nic.max
    /\ passed \in Nat
    /\ Measuring =>
          /\ ifinfo \in Nat /\ ifinfo <= nic.max
          /\ passed <= FP32 - 1
          /\ \/ nic.count = ifinfo + passed
             \/ nic.count = ifinfo + passed - (nic.max + 1)

\* Nothing is counted before a measurement, and no rate is known before the
\* first sample of a display.
SampleInv ==
    /\ total \in Nat /\ flow \in Nat /\ wraps \in Nat /\ n \in Nat
    /\ lo \in Nat /\ hi \in Nat
    /\ lpc = "off" => passed = 0 /\ n = 0 /\ total = 0 /\ lo = NoMin
    /\ lpc \in {"head", "asleep"} /\ lo = NoMin => n = 0 /\ total = 0
    /\ lpc = "sampling" => lo = NoMin
    /\ TotalsRight

\* Initially nothing has been counted.
LEMMA SampleInit == Init => ReadingInv /\ SampleInv
  BY CountersAssumption DEF Init, LiveInit, ReadingInv, SampleInv, Measuring, TotalsRight, NoMin

\* Bytes that pass move the counter on, perhaps over its end.
LEMMA CounterMoves ==
    ASSUME NEW m \in Nat, NEW c \in 0..m, NEW b \in 1..m
    PROVE  /\ (c + b) % (m + 1) \in 0..m
           /\ \/ (c + b) % (m + 1) = c + b
              \/ (c + b) % (m + 1) = c + b - (m + 1)
<1>1. m + 1 \in Nat \ {0} /\ c + b \in Int
  OBVIOUS
<1>2. CASE c + b <= m
  <2>1. c + b \in 0..((m + 1) - 1) /\ c + b = (m + 1) * 0 + (c + b)
    BY <1>2
  <2>2. c + b = (c + b) % (m + 1)
    BY <1>1, <2>1, DivUnique
  <2> QED BY <2>1, <2>2
<1>3. CASE c + b > m
  <2> DEFINE r == c + b - (m + 1)
  <2>1. r \in 0..((m + 1) - 1) /\ c + b = (m + 1) * 1 + r
    BY <1>3
  <2> HIDE DEF r
  <2>2. r = (c + b) % (m + 1)
    BY <1>1, <2>1, DivUnique
  <2> QED BY <2>1, <2>2 DEF r
<1> QED BY <1>2, <1>3

\* A reading counts what passed, less the byte that a wrap loses.
LEMMA ReadingCounts ==
    ASSUME ReadingInv, Measuring
    PROVE  /\ Difference \in Nat /\ Difference < FP64
           /\ Difference = IF nic.count < ifinfo THEN passed - 1 ELSE passed
  BY CountersAssumption, LiveAssumption DEF ReadingInv, Difference, countercalc

\* The reading goes along with every step.
LEMMA ReadingNext == ReadingInv /\ SampleInv /\ [LiveStep]_lvars => ReadingInv'
<1> SUFFICES ASSUME ReadingInv, SampleInv, [LiveStep]_lvars PROVE ReadingInv'
  OBVIOUS
<1>0. FP32 \in Nat \ {0} /\ FP64 \in Nat \ {0}
  BY CountersAssumption, LiveAssumption
<1>1. CASE UNCHANGED lvars
  BY <1>1 DEF lvars, ReadingInv, Measuring
<1>2. CASE Bytes
  <2>1. PICK b \in 1..MaxBytes :
           /\ passed + b <= FP32 - 1
           /\ nic' = [nic EXCEPT !.count = (@ + b) % (nic.max + 1)]
           /\ passed' = passed + b
    BY <1>2 DEF Bytes
  <2>2. b \in 1..nic.max /\ nic.max \in Nat /\ nic.count \in 0..nic.max
    BY <1>0, <2>1, CountersAssumption, LiveAssumption DEF ReadingInv
  <2> DEFINE c == (nic.count + b) % (nic.max + 1)
  <2>3. c \in 0..nic.max /\ (c = nic.count + b \/ c = nic.count + b - (nic.max + 1))
    BY <2>2, CounterMoves
  <2> HIDE DEF c
  <2>4. nic' = [count |-> c, max |-> nic.max]
    BY <2>1 DEF ReadingInv, c
  <2>5. Measuring /\ UNCHANGED <<lpc, ifinfo>>
    BY <1>2 DEF Bytes, parentvars, Measuring
  <2>6. passed' = passed + b /\ passed' <= FP32 - 1 /\ b \in Nat
    BY <2>1, <2>2
  <2>7. FP32 <= nic.max
    BY CountersAssumption DEF ReadingInv
  <2>8. c = ifinfo + passed' \/ c = ifinfo + passed' - (nic.max + 1)
    BY <1>0, <2>2, <2>3, <2>5, <2>6, <2>7 DEF ReadingInv
  <2> QED BY <1>0, <2>2, <2>3, <2>4, <2>5, <2>6, <2>8 DEF ReadingInv, Measuring
<1>3. CASE LoopHead \/ Interrupt \/ Killed
  BY <1>3 DEF LoopHead, Interrupt, Killed, ReadingInv, Measuring
<1>4. CASE TrafficEnd \/ Wake
  <2>1. UNCHANGED nic /\ Measuring
        /\ \/ ifinfo' = nic.count /\ passed' = 0
           \/ UNCHANGED <<ifinfo, passed>>
    BY <1>4 DEF TrafficEnd, Wake, NextReading, Measuring
  <2> QED BY <1>0, <2>1 DEF ReadingInv, Measuring
<1>5. CASE Learns \/ Receive \/ GoesOn
  BY <1>5 DEF Learns, Receive, GoesOn, parentvars, ReadingInv, Measuring
<1>6. CASE LiveStart \/ \E sampletime : TrafficStart(sampletime)
  <2>1. /\ nic' \in {[count |-> FP32 - 1, max |-> FP32], [count |-> FP64 - 1, max |-> FP64]}
        /\ UNCHANGED passed /\ passed = 0
        /\ ifinfo' = nic'.count \/ lpc' = "gone"
    BY <1>6 DEF LiveStart, TrafficStart, Begin, FirstReading, SampleInv
  <2> QED BY <1>0, <2>1 DEF ReadingInv, Measuring
<1> QED BY <1>1, <1>2, <1>3, <1>4, <1>5, <1>6 DEF LiveStep, LiveNext

\* Multiplication is monotone.
LEMMA TimesMonotone ==
    ASSUME NEW a \in Int, NEW b \in Int, NEW k \in Nat, a <= b PROVE a * k <= b * k
  OBVIOUS

\* A further sample keeps the bounds that the least and the largest rate give.
LEMMA RatesBound ==
    ASSUME NEW t \in Nat, NEW k \in Nat, NEW l \in Nat, NEW h \in Nat, NEW d \in Nat,
           NEW l2 \in Nat, NEW h2 \in Nat,
           (k = 0 /\ t = 0) \/ (LIVETIME * l * k <= t /\ t <= (LIVETIME * (h + 1) - 1) * k
                               /\ l2 <= l /\ h <= h2),
           l2 <= d \div LIVETIME, d \div LIVETIME <= h2
    PROVE  /\ LIVETIME * l2 * (k + 1) <= t + d
           /\ t + d <= (LIVETIME * (h2 + 1) - 1) * (k + 1)
<1> DEFINE r == d \div LIVETIME
           least == LIVETIME * l2   most == LIVETIME * (h2 + 1) - 1
<1>1. LIVETIME \in Nat \ {0}
  BY LiveAssumption
<1>2. r \in Nat /\ d >= LIVETIME * r /\ d <= LIVETIME * r + LIVETIME - 1
  BY <1>1, DivModNat
<1> HIDE DEF r
<1>3. l2 * LIVETIME <= r * LIVETIME /\ (r + 1) * LIVETIME <= (h2 + 1) * LIVETIME
  BY <1>1, <1>2, TimesMonotone DEF r
<1>4. least \in Nat /\ most \in Int /\ least <= d /\ d <= most
  BY <1>1, <1>2, <1>3
<1>5. least * k <= t /\ t <= most * k
  <2>1. CASE k = 0 /\ t = 0
    BY <1>4, <2>1
  <2>2. CASE LIVETIME * l * k <= t /\ t <= (LIVETIME * (h + 1) - 1) * k /\ l2 <= l /\ h <= h2
    <3>1. l2 * LIVETIME <= l * LIVETIME /\ (h + 1) * LIVETIME <= (h2 + 1) * LIVETIME
      BY <1>1, <2>2, TimesMonotone
    <3>2. least <= LIVETIME * l /\ LIVETIME * (h + 1) - 1 <= most
      BY <1>1, <3>1
    <3>3. least * k <= LIVETIME * l * k /\ (LIVETIME * (h + 1) - 1) * k <= most * k
      BY <1>1, <1>4, <3>2, TimesMonotone
    <3>4. least * k \in Int /\ most * k \in Int /\ LIVETIME * l * k \in Int
          /\ (LIVETIME * (h + 1) - 1) * k \in Int
      BY <1>1, <1>4
    <3> QED BY <2>2, <3>3, <3>4
  <2> QED BY <2>1, <2>2
<1> HIDE DEF least, most
<1>6. least * (k + 1) = least * k + least /\ most * (k + 1) = most * k + most
      /\ least * k \in Int /\ most * k \in Int
  BY <1>4
<1>7. least * (k + 1) <= t + d /\ t + d <= most * (k + 1)
  BY <1>4, <1>5, <1>6
<1> QED BY <1>7 DEF least, most

\* Every reading keeps the total and the rates right.
LEMMA SampleNext == ReadingInv /\ SampleInv /\ [LiveStep]_lvars => SampleInv'
<1> SUFFICES ASSUME ReadingInv, SampleInv, [LiveStep]_lvars PROVE SampleInv'
  OBVIOUS
<1>1. CASE UNCHANGED lvars
  BY <1>1 DEF lvars, SampleInv, TotalsRight, NoMin
<1>2. CASE Bytes \/ Learns \/ Receive \/ GoesOn
  BY <1>2 DEF Bytes, Learns, Receive, GoesOn, parentvars, SampleInv, TotalsRight, NoMin
<1>3. CASE LoopHead \/ Interrupt \/ Killed
  BY <1>3 DEF LoopHead, Interrupt, Killed, SampleInv, TotalsRight, NoMin
<1>4. CASE LiveStart \/ \E sampletime : TrafficStart(sampletime)
  BY <1>4 DEF LiveStart, TrafficStart, Begin, SampleInv, TotalsRight, NoMin
<1>5. ASSUME Measuring, NextReading
      PROVE  /\ total' \in Nat /\ flow' \in Nat /\ wraps' \in Nat /\ n' \in Nat
             /\ total' = flow' - wraps'
  BY <1>5, ReadingCounts DEF NextReading, ReadingInv, SampleInv, TotalsRight
<1>6. CASE TrafficEnd
  BY <1>5, <1>6 DEF TrafficEnd, Measuring, SampleInv, TotalsRight, NoMin
<1>7. CASE Wake
  <2>1. lpc = "asleep"
    BY <1>7 DEF Wake
  <2>2. CASE lpc' = "gone" /\ UNCHANGED <<total, lo, hi, flow, passed, wraps, n>>
    BY <2>1, <2>2 DEF SampleInv, TotalsRight, NoMin
  <2>3. CASE NextReading /\ lpc' = "head"
             /\ lo' = (IF lo = NoMin \/ lo > Difference \div LIVETIME
                          THEN Difference \div LIVETIME ELSE lo)
             /\ hi' = (IF hi < Difference \div LIVETIME THEN Difference \div LIVETIME ELSE hi)
    <3> DEFINE rate == Difference \div LIVETIME
    <3>1. Difference \in Nat /\ Difference < FP64 /\ LIVETIME \in Nat \ {0}
      BY <2>1, ReadingCounts, LiveAssumption DEF Measuring
    <3>2. rate \in Nat /\ rate <= Difference
      <4> DEFINE rest == Difference % LIVETIME
      <4>0. rate \in Nat /\ rest \in 0..(LIVETIME - 1) /\ Difference = LIVETIME * rate + rest
        BY <3>1, DivModNat
      <4> HIDE DEF rate, rest
      <4>1. rate \in Nat /\ LIVETIME * rate <= Difference
        BY <3>1, <4>0
      <4>2. 1 * rate <= LIVETIME * rate
        BY <3>1, <4>1
      <4> QED BY <3>1, <4>1, <4>2
    <3> HIDE DEF rate
    <3>3. /\ lo' = IF lo = NoMin \/ lo > rate THEN rate ELSE lo
          /\ hi' = IF hi < rate THEN rate ELSE hi
      BY <2>3 DEF rate
    <3>4. lo' \in Nat /\ hi' \in Nat /\ lo' <= rate /\ rate <= hi' /\ hi <= hi'
          /\ (lo # NoMin => lo' <= lo) /\ lo' # NoMin
      BY <3>1, <3>2, <3>3, CountersAssumption DEF SampleInv, NoMin
    <3>5. \/ n = 0 /\ total = 0
          \/ /\ LIVETIME * lo * n <= total /\ total <= (LIVETIME * (hi + 1) - 1) * n
             /\ lo' <= lo /\ hi <= hi'
      BY <2>1, <3>4 DEF SampleInv, TotalsRight
    <3>6. n' = n + 1 /\ total' = total + Difference
      BY <2>3 DEF NextReading
    <3>7. /\ LIVETIME * lo' * (n + 1) <= total + Difference
          /\ total + Difference <= (LIVETIME * (hi' + 1) - 1) * (n + 1)
      <4>1. total \in Nat /\ n \in Nat /\ lo \in Nat /\ hi \in Nat
        BY DEF SampleInv
      <4>2. lo' <= Difference \div LIVETIME /\ Difference \div LIVETIME <= hi'
        BY <3>4 DEF rate
      <4>3. Difference \in Nat /\ lo' \in Nat /\ hi' \in Nat
        BY <3>1, <3>4
      <4> QED BY <3>5, <4>1, <4>2, <4>3, RatesBound
    <3>8. TotalsRight'
      BY <1>5, <2>1, <2>3, <3>6, <3>7 DEF TotalsRight, Measuring, NoMin
    <3> QED BY <1>5, <2>1, <2>3, <3>4, <3>8 DEF SampleInv, Measuring, NoMin
  <2> QED BY <1>7, <2>2, <2>3 DEF Wake
<1> QED BY <1>1, <1>2, <1>3, <1>4, <1>6, <1>7 DEF LiveStep, LiveNext

\* The total of a measurement is what passed between its first and its last
\* reading, less one byte for each wrap, and lies between what the least and
\* the largest rate amount to: no sample is lost or counted twice.
THEOREM TotalsRightAlways == Spec => []TotalsRight
<1>1. SampleInv => TotalsRight
  BY DEF SampleInv
<1> QED BY SampleInit, ReadingNext, SampleNext, StepsOfLive, <1>1, PTL DEF Spec

-----------------------------------------------------------------------------
(***************************************************************************)
(* The stages of a call.                                                   *)
(***************************************************************************)

\* The stages up to the update work on the interface that was asked for; the
\* update of all and what follows it do not touch it again.
Early == {"merge", "savemerged", "reset", "sync", "delete", "cleartop", "rebuildtotal",
          "active", "update"}
Late == {"show", "traffic", "live"}

\* After stage n comes a later one that is wanted, or the end.
LEMMA LaterStage ==
    ASSUME NEW k \in Nat, After(k)
    PROVE  \/ pc' = "exit"
           \/ \E i \in (k + 1)..Len(Stages) :
                 pc' = Stages[i] /\ Wanted(Stages[i], o', interface', merged')
<1> DEFINE later == {i \in (k + 1)..Len(Stages) : Wanted(Stages[i], o', interface', merged')}
           next == CHOOSE i \in later : \A j \in later : i <= j
<1>1. CASE later = {}
  BY <1>1 DEF After
<1>2. CASE later # {}
  <2>1. later \in SUBSET Nat
    BY DEF Stages
  <2>2. next \in later
    BY <1>2, <2>1, Least
  <2>3. pc' = Stages[next]
    BY <1>2 DEF After
  <2> QED BY <2>2, <2>3
<1> QED BY <1>1, <1>2

\* No stage comes twice.
LEMMA StagesDiffer ==
    /\ Len(Stages) = 12 /\ DOMAIN Stages = 1..12
    /\ \A i \in 1..12 : (CHOOSE j \in DOMAIN Stages : Stages[j] = Stages[i]) = i
  BY DEF Stages

\* Where main may be after the stage that is called so.
LEMMA OnwardStage ==
    ASSUME NEW k \in 1..12, Onward(Stages[k])
    PROVE  \/ pc' = "exit"
           \/ \E i \in (k + 1)..12 : pc' = Stages[i] /\ Wanted(Stages[i], o', interface', merged')
<1>1. After(k)
  BY StagesDiffer DEF Onward
<1> QED BY <1>1, LaterStage, StagesDiffer

\* The names of the stages that may follow.
LEMMA FirstStage ==
    ASSUME After(0)
    PROVE  /\ pc' \in {"exit"} \cup Early \cup Late
           /\ pc' = "merge" => HasPlus(interface')
<1>1. \/ pc' = "exit"
      \/ \E i \in 1..12 : pc' = Stages[i] /\ Wanted(Stages[i], o', interface', merged')
  BY LaterStage, StagesDiffer
<1>2. \A i \in 1..12 : Stages[i] \in Early \cup Late
  BY DEF Stages, Early, Late
<1> QED BY <1>1, <1>2 DEF Wanted

LEMMA AfterEarly ==
    ASSUME NEW s \in Early, Onward(s)
    PROVE  pc' \in {"exit"} \cup (Early \ {"merge"}) \cup Late
<1>1. PICK k \in 1..12 : s = Stages[k]
  <2>1. {Stages[k] : k \in 1..12} = Early \cup Late
    BY DEF Stages, Early, Late
  <2> QED BY <2>1
<1>2. \A i \in 2..12 : Stages[i] \in (Early \ {"merge"}) \cup Late
  BY DEF Stages, Early, Late
<1>3. pc' = "exit" \/ \E i \in (k + 1)..12 : pc' = Stages[i]
  BY <1>1, OnwardStage
<1>4. (k + 1)..12 \subseteq 2..12
  OBVIOUS
<1> QED BY <1>2, <1>3, <1>4

LEMMA AfterUpdate ==
    ASSUME NEW s \in {"update", "show"}, Onward(s)
    PROVE  pc' \in {"exit"} \cup Late
<1>1. PICK k \in 9..12 : s = Stages[k]
  <2>1. Stages[9] = "update" /\ Stages[10] = "show"
    BY DEF Stages
  <2> QED BY <2>1
<1>2. \A i \in 10..12 : Stages[i] \in Late
  BY DEF Stages, Late
<1>3. pc' = "exit" \/ \E i \in (k + 1)..12 : pc' = Stages[i]
  BY <1>1, OnwardStage
<1>4. (k + 1)..12 \subseteq 10..12
  OBVIOUS
<1> QED BY <1>2, <1>3, <1>4

-----------------------------------------------------------------------------
(***************************************************************************)
(* The databases that a call changes.                                      *)
(***************************************************************************)

\* The databases have their type, and the flags that matter here are there.
DbTypes ==
    /\ db \in [DOMAIN db -> Database \cup {NoFile}]
    /\ IsFiniteSet(DOMAIN db)
    /\ {"given", "iface", "traffic", "livetraffic"} \subseteq DOMAIN o

\* The name that the operations use is the one that -i gives or one of those
\* in it; without -i, the only database or one of the configured name.
NameInv ==
    /\ pc \in {"config", "parse", "disk", "measuring", "exit", "updating"} \cup Early \cup Late
    /\ pc = "merge" => HasPlus(interface) /\ (o.given => interface = o.iface)
    /\ pc \in Early /\ o.given => interface \in {o.iface} \cup Range(Named[o.iface])
    /\ pc \in Early /\ ~o.given =>
          \/ ~SkipsScan /\ Cardinality(Files) = 1
          \/ interface = CfgIface
          \/ pc # "merge" /\ interface \in Range(Named[CfgIface])
    /\ pc = "updating" => ~o.given /\ todo \subseteq Files

\* Initially nothing has been read.
LEMMA NameInit == Init => DbTypes /\ NameInv
<1> SUFFICES ASSUME Init PROVE DbTypes /\ NameInv
  OBVIOUS
<1>1. PICK call \in Calls : db = call.db
  BY DEF Init, CliInit
<1>2. pc = "config" /\ o = NoFlags
  BY DEF Init, CliInit
<1>3. DbTypes
  BY <1>1, <1>2, CliAssumption DEF DbTypes, NoFlags
<1> QED BY <1>2, <1>3 DEF NameInv, Early

\* A database that is there is a record, and one that is not is not.
LEMMA HereType ==
    ASSUME DbTypes, NEW f \in DOMAIN db
    PROVE  /\ Here(f) => db[f] \in Database
           /\ ~Here(f) => db[f] = NoFile
<1>1. CASE db[f] \in Database
  BY <1>1 DEF Here, Database
<1>2. CASE db[f] = NoFile
  BY <1>2 DEF Here, NoFile
<1> QED BY <1>1, <1>2 DEF DbTypes

\* What readdb leaves in memory is a record.
LEMMA LoadedType == ASSUME DbTypes, NEW f PROVE Loaded(f) \in Database
  BY HereType DEF Loaded, NewRecord, Database

\* A write changes that file alone, to a record.
LEMMA WriteOne ==
    ASSUME DbTypes, NEW f, NEW r \in Database, NEW new, Write(f, r, new), UNCHANGED o
    PROVE  /\ DbTypes'
           /\ DOMAIN db' = DOMAIN db
           /\ \A g \in DOMAIN db : db'[g] # db[g] => g = f
<1> DEFINE w == [r EXCEPT !.updated = "now"]
<1>1. w \in Database
  BY DEF Database
<1> HIDE DEF w
<1>2. db' = db \/ (f \in DOMAIN db /\ db' = [db EXCEPT ![f] = w])
  BY DEF Write, w
<1> QED BY <1>1, <1>2 DEF DbTypes

\* Without the permission to make a new file, it makes none.
LEMMA WriteOld ==
    ASSUME DbTypes, NEW f, NEW r \in Database, Write(f, r, FALSE)
    PROVE  /\ Files' = Files
           /\ \A g \in DOMAIN db : db'[g] # db[g] => g = f /\ f \in Files
<1> DEFINE w == [r EXCEPT !.updated = "now"]
<1>1. w \in Database
  BY DEF Database
<1> HIDE DEF w
<1>2. db' = db \/ (f \in DOMAIN db /\ Here(f) /\ db' = [db EXCEPT ![f] = w])
  BY DEF Write, w
<1>3. w.here
  BY <1>1 DEF Database
<1>4. DOMAIN db' = DOMAIN db /\ \A g \in DOMAIN db : Here(g)' <=> Here(g)
  BY <1>2, <1>3 DEF DbTypes, Here
<1> QED BY <1>2, <1>4 DEF Files

\* If there is but one database, and somebody looks, it is the default.
LEMMA OnlyOne ==
    ASSUME DbTypes, ~SkipsScan, Cardinality(Files) = 1, NEW f \in Files PROVE DefInterface = f
<1>1. IsFiniteSet(Files)
  BY FS_Subset DEF DbTypes, Files
<1>2. PICK x : Files = {x}
  BY <1>1, FS_Singleton
<1> QED BY <1>2 DEF DefInterface

\* The name, if it is that of a database, is one that was asked for.
LEMMA NameAsked ==
    ASSUME DbTypes, NameInv, pc \in Early, interface \in Files PROVE interface \in Asked
<1>1. pc # "updating"
  BY DEF Early
<1>2. CASE o.given
  BY <1>2 DEF NameInv, Asked
<1>3. CASE ~o.given
  <2>1. CASE ~SkipsScan /\ Cardinality(Files) = 1
    BY <1>1, <1>3, <2>1, OnlyOne DEF Asked
  <2>2. CASE ~(~SkipsScan /\ Cardinality(Files) = 1)
    <3>1. DefInterface = CfgIface
      BY <2>2 DEF DefInterface
    <3> QED BY <1>1, <1>3, <2>2, <3>1 DEF NameInv, Asked
  <2> QED BY <2>1, <2>2
<1> QED BY <1>2, <1>3

\* What a step has to do for the theorem below.
KeepsName == DbTypes' /\ NameInv' /\ \A f \in DOMAIN db : db'[f] # db[f] => f \in Asked

\* The flags that matter here survive when others are set.
SameFlags ==
    /\ DOMAIN o \subseteq DOMAIN o' /\ o'.given = o.given /\ o'.iface = o.iface
    /\ o'.traffic = o.traffic /\ o'.livetraffic = o.livetraffic

LEMMA ClearsQuery ==
    ASSUME DbTypes, o' = [o EXCEPT !.query = FALSE] \/ o' = [o EXCEPT !.update = FALSE] \/ o' = o
    PROVE  SameFlags
  BY DEF DbTypes, SameFlags

\* Where no operation on the name follows, it does not matter.
LEMMA Elsewhere ==
    ASSUME DbTypes, UNCHANGED db, DOMAIN o \subseteq DOMAIN o',
           pc' \in {"config", "parse", "disk", "measuring", "exit"} \cup Late
    PROVE  KeepsName
<1>1. DbTypes'
  BY DEF DbTypes
<1>2. NameInv'
  BY DEF NameInv, Early, Late
<1> QED BY <1>1, <1>2 DEF KeepsName

\* Between two stages that leave the name alone.
LEMMA NextStage ==
    ASSUME DbTypes', NameInv, SameFlags, Files' = Files, UNCHANGED interface, pc \in Early,
           pc' \in {"exit"} \cup (Early \ {"merge"}) \cup Late
    PROVE  NameInv'
<1>1. CASE pc' \in Early
  <2>1. pc' # "merge" /\ pc' # "updating"
    BY <1>1 DEF Early, Late
  <2> QED BY <1>1, <2>1 DEF NameInv, SameFlags, SkipsScan
<1>2. CASE pc' \notin Early
  BY <1>2 DEF NameInv, Early, Late
<1> QED BY <1>1, <1>2

\* A change of the record of that name.
LEMMA ChangeKeeps ==
    ASSUME DbTypes, NameInv, NEW s \in Early, AtStage(s), NEW r \in Database, ChangeRecord(s, r),
           SameFlags
    PROVE  KeepsName
<1>1. pc' \in {"exit"} \cup (Early \ {"merge"}) \cup Late
  BY AfterEarly DEF ChangeRecord
<1>2. Write(interface, r, FALSE) /\ UNCHANGED interface
  BY DEF ChangeRecord
<1>3. Files' = Files /\ \A g \in DOMAIN db : db'[g] # db[g] => g = interface /\ interface \in Files
  BY <1>2, WriteOld
<1>4. DbTypes'
  <2> DEFINE w == [r EXCEPT !.updated = "now"]
  <2>1. w \in Database
    BY DEF Database
  <2> HIDE DEF w
  <2>2. db' = db \/ (interface \in DOMAIN db /\ db' = [db EXCEPT ![interface] = w])
    BY <1>2 DEF Write, w
  <2> QED BY <2>1, <2>2 DEF DbTypes, SameFlags
<1>5. NameInv'
  BY <1>1, <1>2, <1>3, <1>4, NextStage DEF AtStage
<1>6. ASSUME NEW g \in DOMAIN db, db'[g] # db[g] PROVE g \in Asked
  BY <1>3, <1>6, NameAsked DEF AtStage
<1> QED BY <1>4, <1>5, <1>6 DEF KeepsName

\* A refusal.
LEMMA RefuseKeeps == ASSUME DbTypes, Refuse PROVE KeepsName
  BY Elsewhere DEF Refuse, Return

\* Every step of the command itself does so.
LEMMA StepKeepsName ==
    ASSUME DbTypes, NameInv, CliNext \/ ParseDisk \/ Measure PROVE KeepsName
<1>1. CASE ReadConfig
  BY <1>1, Elsewhere DEF ReadConfig, Fail, ParseUnchanged
<1>2. CASE Parse \/ ParseDisk
  <2>1. pc = "parse" /\ UNCHANGED db
    BY <1>2 DEF Parse, ParseFlag, ParseValued, ParseStyle, ParseRateUnit, ParseTraffic, ParseLive,
                ParseImmediate, ParseUnknown, ParseDisk, Parsing, ParseUnchanged
  <2>2. pc' \in {"parse", "exit", "disk"} /\ DOMAIN o' = DOMAIN o
    BY <1>2, <2>1 DEF Parse, ParseFlag, ParseValued, ParseStyle, ParseRateUnit, ParseTraffic,
                ParseLive, ParseImmediate, ParseUnknown, ParseDisk, Set, Fail
  <2> QED BY <2>1, <2>2, Elsewhere
<1>3. CASE Measure
  BY <1>3, Elsewhere DEF Measure
<1>4. CASE Scan
  <2>1. UNCHANGED <<db, o>> /\ pc' \in {"exit"} \cup Early \cup Late
        /\ (pc' = "merge" => HasPlus(interface'))
    BY <1>4, FirstStage DEF Scan, Return, Early
  <2>2. o.given => interface' = o.iface
    BY <1>4 DEF Scan
  <2>3. ~o.given => (~SkipsScan /\ Cardinality(Files) = 1) \/ interface' = CfgIface
    BY <1>4 DEF Scan, DefInterface
  <2>4. DbTypes' /\ Files' = Files
    BY <2>1 DEF DbTypes, Files, Here
  <2>5. NameInv'
    BY <2>1, <2>2, <2>3, <2>4 DEF NameInv, SkipsScan, Early, Late
  <2> QED BY <2>1, <2>4, <2>5 DEF KeepsName
<1>5. CASE Merge
  <2>1. pc = "merge" /\ UNCHANGED <<db, o>> /\ interface' = Named[interface][1]
    BY <1>5 DEF Merge, AtStage
  <2>2. pc' \in {"exit"} \cup (Early \ {"merge"}) \cup Late
    BY <1>5, AfterEarly DEF Merge, Return, Early
  <2>3. interface' \in Range(Named[interface])
    <3>1. Named[interface] \in Seq(STRING) /\ Len(Named[interface]) > 1
      BY <2>1, CliAssumption DEF NameInv, HasPlus
    <3>2. 1 \in DOMAIN Named[interface]
      BY <3>1
    <3> QED BY <2>1, <3>2 DEF Range
  <2>4. DbTypes' /\ Files' = Files
    BY <2>1 DEF DbTypes, Files, Here
  <2>5. NameInv'
    BY <2>1, <2>2, <2>3, <2>4 DEF NameInv, SkipsScan, Early, Late
  <2> QED BY <2>1, <2>4, <2>5 DEF KeepsName
<1>6. CASE SaveMerged
  BY <1>6, Elsewhere DEF SaveMerged, Return
<1>7. \A s \in {"reset", "sync", "delete", "cleartop", "rebuildtotal", "active", "update"} : s \in Early
  BY DEF Early
<1>8. Loaded(interface) \in Database
  BY LoadedType
<1>9. CASE Reset
  <2>1. [Loaded(interface) EXCEPT !.curr = "zero"] \in Database
    BY <1>8 DEF Database
  <2> QED BY <1>7, <1>9, <2>1, ChangeKeeps, ClearsQuery, RefuseKeeps DEF Reset
<1>10. CASE Sync
  <2>1. [Loaded(interface) EXCEPT !.curr = "now"] \in Database
    BY <1>8 DEF Database
  <2> QED BY <1>7, <1>10, <2>1, ChangeKeeps, ClearsQuery, RefuseKeeps DEF Sync
<1>11. CASE Delete
  <2>1. CASE Refuse
    BY <2>1, RefuseKeeps
  <2>2. CASE ~Refuse
    <3>1. /\ pc = "delete" /\ pc' = "exit" /\ UNCHANGED o /\ interface \in Files
          /\ db' = [db EXCEPT ![interface] = NoFile]
      BY <1>11, <2>2 DEF Delete, AtStage, Return, Exists, Files
    <3>2. DbTypes'
      BY <3>1 DEF DbTypes
    <3>3. NameInv'
      BY <3>1 DEF NameInv, Early
    <3>4. interface \in Asked
      BY <1>7, <3>1, NameAsked
    <3> QED BY <3>1, <3>2, <3>3, <3>4 DEF KeepsName
  <2> QED BY <2>1, <2>2
<1>12. CASE ClearTop
  <2>1. [Loaded(interface) EXCEPT !.top = FALSE] \in Database
    BY <1>8 DEF Database
  <2> QED BY <1>7, <1>12, <2>1, ChangeKeeps, ClearsQuery, RefuseKeeps DEF ClearTop
<1>13. CASE RebuildTotal
  <2>1. [Loaded(interface) EXCEPT !.total = "rebuilt"] \in Database
    BY <1>8 DEF Database
  <2> QED BY <1>7, <1>13, <2>1, ChangeKeeps, ClearsQuery, RefuseKeeps DEF RebuildTotal
<1>14. CASE Activate
  <2>1. CASE Refuse
    BY <2>1, RefuseKeeps
  <2>2. CASE ~Refuse /\ Exists(interface) /\ db[interface].active # (o.active = 1)
    <3>1. [db[interface] EXCEPT !.active = (o.active = 1)] \in Database
      BY <2>2, HereType DEF Exists, Database
    <3>2. /\ AtStage("active") /\ UNCHANGED o
          /\ ChangeRecord("active", [db[interface] EXCEPT !.active = (o.active = 1)])
      BY <1>14, <2>2 DEF Activate
    <3> QED BY <1>7, <3>1, <3>2, ChangeKeeps, ClearsQuery
  <2>3. CASE ~Refuse /\ ~(Exists(interface) /\ db[interface].active # (o.active = 1))
    <3>1. pc = "active" /\ UNCHANGED <<o, db, interface>> /\ Onward("active")
      BY <1>14, <2>3 DEF Activate, AtStage
    <3>2. DbTypes' /\ Files' = Files /\ SameFlags
      BY <3>1 DEF DbTypes, Files, Here, SameFlags
    <3>3. NameInv'
      BY <1>7, <3>1, <3>2, NextStage, AfterEarly
    <3> QED BY <3>1, <3>2, <3>3 DEF KeepsName
  <2> QED BY <2>1, <2>2, <2>3
<1>15. CASE UpdateAll
  <2>1. CASE Refuse
    BY <2>1, RefuseKeeps
  <2>2. CASE pc' = "updating" /\ todo' = Files /\ UNCHANGED <<db, o>>
    <3>1. ~o.given
      BY <1>15 DEF UpdateAll
    <3>2. DbTypes' /\ Files' = Files
      BY <2>2 DEF DbTypes, Files, Here
    <3>3. NameInv'
      BY <2>2, <3>1, <3>2 DEF NameInv, Early, Late
    <3> QED BY <2>2, <3>2, <3>3 DEF KeepsName
  <2>3. CASE o' = [o EXCEPT !.update = FALSE] /\ UNCHANGED db /\ Onward("update")
    BY <2>3, AfterUpdate, ClearsQuery, Elsewhere DEF SameFlags
  <2> QED BY <1>15, <2>1, <2>2, <2>3 DEF UpdateAll
<1>16. CASE UpdateNext
  <2>1. PICK f \in todo :
           /\ todo' = todo \ {f} /\ UNCHANGED o
           /\ pc' = "exit" \/ UNCHANGED pc
           /\ Write(f, Updated(db[f]), FALSE) \/ UNCHANGED db
    BY <1>16 DEF UpdateNext, Return
  <2>2. pc = "updating" /\ ~o.given /\ f \in Files /\ todo \subseteq Files
    BY <1>16 DEF UpdateNext, NameInv
  <2>3. Updated(db[f]) \in Database
    <3>1. db[f] \in Database
      BY <2>2, HereType DEF Files
    <3> QED BY <3>1 DEF Updated, Database
  <2>4. /\ DbTypes' /\ Files' = Files
        /\ \A g \in DOMAIN db : db'[g] # db[g] => g = f
    <3>1. CASE Write(f, Updated(db[f]), FALSE)
      BY <2>1, <2>3, <3>1, WriteOne, WriteOld
    <3>2. CASE UNCHANGED db
      BY <2>1, <3>2 DEF DbTypes, Files, Here
    <3> QED BY <2>1, <3>1, <3>2
  <2>5. f \in Asked
    BY <2>2 DEF Asked
  <2>6. NameInv'
    BY <2>1, <2>2, <2>4 DEF NameInv, Early, Late
  <2> QED BY <2>4, <2>5, <2>6 DEF KeepsName
<1>17. CASE UpdateEnd
  BY <1>17, AfterUpdate, Elsewhere DEF UpdateEnd
<1>18. CASE UpdateNamed
  <2>1. CASE Refuse
    BY <2>1, RefuseKeeps
  <2>2. CASE UNCHANGED <<o, db>> /\ Onward("update")
    BY <2>2, AfterUpdate, Elsewhere
  <2> DEFINE r == [Updated(Loaded(interface)) EXCEPT !.nick = @ \/ o.nick]
  <2>3. CASE UNCHANGED o /\ Onward("update") /\ Write(interface, r, ~Exists(interface))
    <3>1. Updated(Loaded(interface)) \in Database
      BY <1>8 DEF Updated, Database
    <3>2. r \in Database
      BY <3>1 DEF Database
    <3> HIDE DEF r
    <3>3. DbTypes' /\ \A g \in DOMAIN db : db'[g] # db[g] => g = interface
      BY <2>3, <3>2, WriteOne
    <3>4. interface \in Asked
      BY <1>7, <1>18 DEF UpdateNamed, AtStage, NameInv, Asked
    <3>5. NameInv'
      <4>1. pc' \in {"exit"} \cup Late
        BY <2>3, AfterUpdate
      <4> QED BY <4>1 DEF NameInv, Early, Late
    <3> QED BY <3>3, <3>4, <3>5 DEF KeepsName
  <2> QED BY <1>18, <2>1, <2>2, <2>3 DEF UpdateNamed
<1>19. CASE ShowQuery
  <2>1. UNCHANGED db /\ Onward("show") /\ (o' = o \/ o' = [o EXCEPT !.query = FALSE])
    BY <1>19 DEF ShowQuery
  <2> QED BY <2>1, AfterUpdate, ClearsQuery, Elsewhere DEF SameFlags
<1> QED
  BY <1>1, <1>2, <1>3, <1>4, <1>5, <1>6, <1>9, <1>10, <1>11, <1>12, <1>13, <1>14, <1>15, <1>16,
     <1>17, <1>18, <1>19 DEF CliNext, Stage

\* The steps of the report and of the monitor are none of the command's own.
LEMMA StepsOfCli == [Next]_vars => [CliNext \/ ParseDisk \/ Measure]_cvars
  BY DEF Next, Main, CallDisk, CallTraffic, CallLive, Report, Monitor, vars

\* Nor does anything else change what the name says.
LEMMA NameNext == DbTypes /\ NameInv /\ [Next]_vars => DbTypes' /\ NameInv'
<1> SUFFICES ASSUME DbTypes, NameInv, [Next]_vars PROVE DbTypes' /\ NameInv'
  OBVIOUS
<1>1. CASE CliNext \/ ParseDisk \/ Measure
  BY <1>1, StepKeepsName DEF KeepsName
<1>2. CASE UNCHANGED cvars
  BY <1>2 DEF cvars, DbTypes, NameInv, SkipsScan, Files, Here
<1> QED BY <1>1, <1>2, StepsOfCli

\* A call changes no database but those that it names, or the default one if
\* it names none, or, in an update of all, all: although its stages share the
\* name of the interface, which the merge cuts and the update of all changes.
THEOREM OthersUntouchedAlways == Spec => OthersUntouched
<1>1. DbTypes /\ NameInv /\ [Next]_vars
      => [\A f \in DOMAIN db : db'[f] # db[f] => f \in Asked]_cvars
  BY StepKeepsName, StepsOfCli DEF KeepsName
<1> QED BY NameInit, NameNext, <1>1, PTL DEF Spec, OthersUntouched

-----------------------------------------------------------------------------
(***************************************************************************)
(* What a call measures and shows.                                         *)
(***************************************************************************)

\* The name that the call is about, and what a merge makes of it.
Name == IF o.given THEN o.iface ELSE CfgIface
Used == IF merged THEN Named[Name][1] ELSE Name

\* The stages that leave another record in memory.
UsesRecord == o.reset \/ o.sync \/ o.active # -1 \/ o.update

\* The stage is one that the flags ask for.
StageWanted ==
    /\ pc = "reset" => o.reset
    /\ pc = "sync" => o.sync
    /\ pc = "active" => o.active # -1
    /\ pc = "update" => o.update
    /\ pc = "updating" => o.update /\ ~o.given
    /\ pc = "show" => o.query
    /\ pc \in {"traffic", "live"} => o.traffic \/ o.livetraffic

\* Without a look at the directory the operations use the name that was asked
\* for, until an update goes through all databases.
NameUsed ==
    /\ pc \in {"config", "parse", "disk", "merge"} => ~merged
    /\ (o.given \/ SkipsScan) /\ (pc \in Early \/ (pc \in Late /\ (o.update => o.given))) =>
          interface = Used /\ (o.given \/ files \in {0, 1})

\* A merge leaves its record in memory until another is read.
Merged ==
    pc \in (Early \ {"merge"}) \cup {"show"} /\ o.given /\ o.query /\ ~UsesRecord =>
        IF HasPlus(o.iface) THEN merged /\ data = Range(Named[o.iface]) ELSE ~merged

\* Nothing is measured or shown before its stage.
AskedInv ==
    /\ {"query", "given", "iface", "reset", "sync", "active", "update", "traffic", "livetraffic"}
          \subseteq DOMAIN o
    /\ StageWanted
    /\ NameUsed
    /\ Merged
    /\ measured # None => pc = "measuring"
    /\ shown # {} => pc \in {"traffic", "live", "measuring", "exit"}
    /\ AsAsked

\* Initially no argument has been read.
LEMMA AskedInit == Init => AskedInv
<1> SUFFICES ASSUME Init PROVE AskedInv
  OBVIOUS
<1>1. pc = "config" /\ o = NoFlags /\ measured = None /\ shown = {} /\ ~merged
  BY DEF Init, CliInit
<1> QED BY <1>1 DEF AskedInv, StageWanted, NameUsed, Merged, AsAsked, NoFlags, Early, Late

\* The stage that comes next is wanted.
LEMMA WantedNext ==
    ASSUME NEW i \in 1..12, pc' = Stages[i], Wanted(Stages[i], o', interface', merged')
    PROVE  StageWanted'
<1>1. /\ Stages[1] = "merge" /\ Stages[2] = "savemerged" /\ Stages[3] = "reset"
      /\ Stages[4] = "sync" /\ Stages[5] = "delete" /\ Stages[6] = "cleartop"
      /\ Stages[7] = "rebuildtotal" /\ Stages[8] = "active" /\ Stages[9] = "update"
      /\ Stages[10] = "show" /\ Stages[11] = "traffic" /\ Stages[12] = "live"
  BY DEF Stages
<1>2. i \in {1, 2, 3, 4, 5, 6, 7, 8, 9, 10, 11, 12}
  OBVIOUS
<1>3. CASE i \in {1, 2, 5, 6, 7}
  BY <1>1, <1>3 DEF StageWanted
<1>4. CASE i = 3
  BY <1>1, <1>4 DEF StageWanted, Wanted
<1>5. CASE i = 4
  BY <1>1, <1>5 DEF StageWanted, Wanted
<1>6. CASE i = 8
  BY <1>1, <1>6 DEF StageWanted, Wanted
<1>7. CASE i = 9
  BY <1>1, <1>7 DEF StageWanted, Wanted
<1>8. CASE i = 10
  BY <1>1, <1>8 DEF StageWanted, Wanted
<1>9. CASE i = 11
  BY <1>1, <1>9 DEF StageWanted, Wanted
<1>10. CASE i = 12
  BY <1>1, <1>10 DEF StageWanted, Wanted
<1> QED BY <1>2, <1>3, <1>4, <1>5, <1>6, <1>7, <1>8, <1>9, <1>10

LEMMA WantedEnd == ASSUME pc' = "exit" PROVE StageWanted'
  BY DEF StageWanted

\* If a merge is wanted, it is the first stage.
LEMMA MergeFirst ==
    ASSUME After(0)
    PROVE  /\ StageWanted'
           /\ o'.query /\ HasPlus(interface') => pc' = "merge"
<1>1. StageWanted'
  BY LaterStage, StagesDiffer, WantedNext, WantedEnd
<1>2. ASSUME o'.query, HasPlus(interface') PROVE pc' = "merge"
  <2> DEFINE later == {i \in 1..12 : Wanted(Stages[i], o', interface', merged')}
             next == CHOOSE i \in later : \A j \in later : i <= j
  <2>1. Stages[1] = "merge" /\ 1 \in 1..12
    BY DEF Stages
  <2>2. Wanted("merge", o', interface', merged')
    BY <1>2 DEF Wanted
  <2>3. 1 \in later
    BY <2>1, <2>2
  <2>4. later \in SUBSET Nat /\ later # {}
    BY <2>3
  <2>5. next \in later /\ next <= 1
    BY <2>3, <2>4, Least
  <2>6. later \subseteq 1..12
    OBVIOUS
  <2> HIDE DEF next
  <2>7. next = 1
    BY <2>5, <2>6
  <2>8. pc' = Stages[next]
    BY <2>4, StagesDiffer DEF After, next
  <2> QED BY <2>1, <2>7, <2>8
<1> QED BY <1>1, <1>2

\* The stage after another is wanted.
LEMMA StillWanted == ASSUME NEW s \in Early \cup Late, Onward(s) PROVE StageWanted'
<1>1. PICK k \in 1..12 : s = Stages[k]
  <2>1. {Stages[k] : k \in 1..12} = Early \cup Late
    BY DEF Stages, Early, Late
  <2> QED BY <2>1
<1>2. \A i \in (k + 1)..12 : i \in 1..12
  OBVIOUS
<1> QED BY <1>1, <1>2, OnwardStage, WantedNext, WantedEnd

\* What comes after the display.
LEMMA AfterShow == ASSUME Onward("show") PROVE pc' \in {"exit", "traffic", "live"}
<1>1. Stages[10] = "show" /\ Stages[11] = "traffic" /\ Stages[12] = "live"
  BY DEF Stages
<1>2. pc' = "exit" \/ \E i \in 11..12 : pc' = Stages[i]
  <2>1. 10 \in 1..12 /\ 10 + 1 = 11
    OBVIOUS
  <2> QED BY <1>1, <2>1, OnwardStage
<1> QED BY <1>1, <1>2

\* The flags stay as they were read, but for the two that stages clear.
FlagsKept ==
    /\ DOMAIN o' = DOMAIN o
    /\ \A x \in {"given", "iface", "reset", "sync", "active", "traffic", "livetraffic"} : o'[x] = o[x]
    /\ o'.query => o.query
    /\ o'.update => o.update
    /\ o.given => o'.update = o.update

LEMMA ClearsFlags ==
    ASSUME AskedInv,
           \/ o' = o
           \/ o' = [o EXCEPT !.query = FALSE]
           \/ o' = [o EXCEPT !.update = FALSE] /\ ~o.given
    PROVE  FlagsKept
<1>1. CASE o' = o
  BY <1>1 DEF FlagsKept
<1>2. CASE o' = [o EXCEPT !.query = FALSE]
  BY <1>2 DEF AskedInv, FlagsKept
<1>3. CASE o' = [o EXCEPT !.update = FALSE] /\ ~o.given
  BY <1>3 DEF AskedInv, FlagsKept
<1> QED BY <1>1, <1>2, <1>3

\* A call that ends before it has shown or measured anything.
LEMMA Ends ==
    ASSUME AskedInv, DOMAIN o' = DOMAIN o, pc' \in {"parse", "disk", "exit"},
           merged' => merged \/ pc' = "exit", pc \notin Early \cup Late \/ pc' = "exit",
           pc' # "exit" => pc \in {"config", "parse"},
           measured' = None, shown' = {}
    PROVE  AskedInv'
<1>1. StageWanted' /\ Merged'
  BY DEF StageWanted, Merged, Early
<1>2. NameUsed'
  BY DEF AskedInv, NameUsed, Early, Late
<1>3. AsAsked'
  BY DEF AsAsked
<1> QED BY <1>1, <1>2, <1>3 DEF AskedInv

\* Before the display nothing is measured or shown.
LEMMA NothingYet ==
    ASSUME AskedInv, pc \in {"config", "parse", "show", "updating"} \cup Early
    PROVE  measured = None /\ shown = {}
  BY DEF AskedInv, Early

\* A refusal or an end on the spot.
LEMMA ReturnAsked ==
    ASSUME AskedInv, pc \in {"updating"} \cup Early, pc' = "exit", UNCHANGED <<o, measured, shown>>
    PROVE  AskedInv'
  BY NothingYet, Ends

\* From a stage to the next.
LEMMA StagePasses ==
    ASSUME AskedInv, pc \in Early \ {"merge"}, Onward(pc), FlagsKept,
           UNCHANGED <<interface, merged, files, measured, shown>>,
           o.given /\ o'.query /\ ~UsesRecord => UNCHANGED data
    PROVE  AskedInv'
<1>1. pc' \in {"exit"} \cup (Early \ {"merge"}) \cup Late
  BY AfterEarly
<1>2. StageWanted'
  BY StillWanted
<1>3. measured' = None /\ shown' = {} /\ AsAsked'
  BY NothingYet DEF AsAsked
<1>4. SkipsScan' = SkipsScan /\ Name' = Name /\ o'.given = o.given /\ o'.iface = o.iface
  BY DEF FlagsKept, SkipsScan, Name
<1>5. NameUsed'
  <2>1. Used' = Used
    BY <1>4 DEF Used
  <2>2. o.given \/ SkipsScan => interface = Used /\ (o.given \/ files \in {0, 1})
    BY DEF AskedInv, NameUsed
  <2>3. pc' \notin {"config", "parse", "disk", "merge"}
    BY <1>1 DEF Early, Late
  <2> QED BY <1>4, <2>1, <2>2, <2>3 DEF NameUsed
<1>6. Merged'
  <2> SUFFICES ASSUME o'.given, o'.query, ~UsesRecord'
               PROVE  IF HasPlus(o'.iface) THEN merged' /\ data' = Range(Named[o'.iface]) ELSE ~merged'
    BY DEF Merged, HasPlus
  <2>1. o.given /\ o.query /\ ~UsesRecord
    BY DEF FlagsKept, UsesRecord
  <2>2. data' = data
    BY <2>1
  <2>3. IF HasPlus(o.iface) THEN merged /\ data = Range(Named[o.iface]) ELSE ~merged
    BY <2>1 DEF AskedInv, Merged
  <2> QED BY <1>4, <2>2, <2>3
<1> QED BY <1>2, <1>3, <1>5, <1>6 DEF AskedInv, FlagsKept

\* A change of the record, which the flags account for.
LEMMA ChangeAsked ==
    ASSUME AskedInv, NEW s \in Early \ {"merge"}, AtStage(s), NEW r, ChangeRecord(s, r), FlagsKept,
           o.given /\ o'.query => UsesRecord
    PROVE  AskedInv'
<1>1. pc = s /\ Onward(pc) /\ UNCHANGED <<interface, merged, files, measured, shown>>
  BY DEF AtStage, ChangeRecord, Keep, StageUnchanged
<1> QED BY <1>1, StagePasses

LEMMA RefuseAsked ==
    ASSUME AskedInv, pc \in Early, Refuse PROVE AskedInv'
  BY ReturnAsked DEF Refuse, Return, Keep, StageUnchanged

\* The arguments are read.
LEMMA ParseAsked == ASSUME AskedInv, ReadConfig \/ Parse \/ ParseDisk PROVE AskedInv'
<1>1. /\ pc \in {"config", "parse"} /\ pc' \in {"parse", "disk", "exit"}
      /\ DOMAIN o' = DOMAIN o /\ UNCHANGED <<merged, measured, shown>>
  <2>1. CASE ReadConfig
    BY <2>1 DEF ReadConfig, Fail, ParseUnchanged
  <2>2. CASE Parse \/ ParseDisk
    <3>1. pc = "parse" /\ UNCHANGED <<merged, measured, shown>>
      BY <2>2 DEF Parse, ParseFlag, ParseValued, ParseStyle, ParseRateUnit, ParseTraffic, ParseLive,
                  ParseImmediate, ParseUnknown, ParseDisk, Parsing, ParseUnchanged
    <3>2. pc' \in {"parse", "exit", "disk"} /\ DOMAIN o' = DOMAIN o
      BY <2>2, <3>1 DEF Parse, ParseFlag, ParseValued, ParseStyle, ParseRateUnit, ParseTraffic,
                  ParseLive, ParseImmediate, ParseUnknown, ParseDisk, Set, Fail
    <3> QED BY <3>1, <3>2
  <2> QED BY <2>1, <2>2
<1> QED BY <1>1, NothingYet, Ends DEF Early, Late

\* The directory is read, unless something is measured.
LEMMA ScanAsked == ASSUME AskedInv, Scan PROVE AskedInv'
<1>1. pc = "parse" /\ UNCHANGED <<o, merged, data, measured, shown>>
  BY DEF Scan
<1>2. ~merged /\ measured = None /\ shown = {}
  BY <1>1, NothingYet DEF AskedInv, NameUsed
<1>3. CASE pc' = "exit"
  BY <1>1, <1>2, <1>3, Ends DEF Early, Late
<1>4. CASE After(0)
  <2>1. StageWanted' /\ (o'.query /\ HasPlus(interface') => pc' = "merge")
    BY <1>4, MergeFirst
  <2>2. pc' \in {"exit"} \cup Early \cup Late
    BY <1>4, FirstStage
  <2>3. o.given => interface' = o.iface
    BY DEF Scan
  <2>4. SkipsScan => files' = 0 /\ (~o.given => interface' = CfgIface)
    BY DEF Scan, DefInterface
  <2>5. NameUsed'
    BY <1>1, <1>2, <2>2, <2>3, <2>4 DEF NameUsed, Used, Name, SkipsScan
  <2>6. Merged'
    <3> SUFFICES ASSUME pc' # "merge", o.given, o.query PROVE ~HasPlus(o.iface)
      BY <1>1, <1>2 DEF Merged, HasPlus, Early, Late
    <3> QED BY <1>1, <2>1, <2>3
  <2> QED BY <1>1, <1>2, <2>1, <2>5, <2>6 DEF AskedInv, AsAsked
<1> QED BY <1>3, <1>4 DEF Scan, Return

\* A merge works on the name that was asked for, and keeps its first part.
LEMMA MergeAsked == ASSUME AskedInv, NameInv, Merge PROVE AskedInv'
<1>1. pc = "merge" /\ UNCHANGED <<o, measured, shown>> /\ interface' = Named[interface][1]
  BY DEF Merge, AtStage, Keep
<1>2. CASE pc' = "exit"
  BY <1>1, <1>2, ReturnAsked DEF Early
<1>3. CASE merged' = TRUE /\ files' = 1 /\ data' = Range(Named[interface]) /\ Onward("merge")
  <2>1. pc' \in {"exit"} \cup (Early \ {"merge"}) \cup Late /\ StageWanted'
    BY <1>3, AfterEarly, StillWanted DEF Early
  <2>2. measured = None /\ shown = {}
    BY <1>1, NothingYet DEF Early
  <2>3. o.given \/ SkipsScan => interface = Name
    <3>1. ~merged /\ "merge" \in Early
      BY <1>1 DEF AskedInv, NameUsed, Early
    <3> QED BY <1>1, <3>1 DEF AskedInv, NameUsed, Used
  <2>4. NameUsed'
    BY <1>1, <1>3, <2>1, <2>3 DEF NameUsed, Used, Name, SkipsScan, Early, Late
  <2>5. Merged'
    BY <1>1, <1>3 DEF Merged, NameInv, HasPlus
  <2> QED BY <1>1, <2>1, <2>2, <2>4, <2>5 DEF AskedInv, AsAsked
<1> QED BY <1>2, <1>3 DEF Merge, Return

\* The display of what -i names, or of what the merge left.
LEMMA ShowAsked == ASSUME AskedInv, ShowQuery PROVE AskedInv'
<1>1. /\ pc = "show" /\ Onward("show") /\ UNCHANGED <<files, merged, data, measured>>
      /\ o' = o \/ o' = [o EXCEPT !.query = FALSE]
  BY DEF ShowQuery, AtStage, Keep
<1>2. pc' \in {"exit", "traffic", "live"} /\ StageWanted'
  BY <1>1, AfterShow, StillWanted DEF Late
<1>3. measured = None /\ shown = {} /\ o.query
  BY <1>1, NothingYet DEF AskedInv, StageWanted
<1>4. FlagsKept
  BY <1>1, ClearsFlags
<1>5. SkipsScan' = SkipsScan /\ Name' = Name /\ o'.given = o.given /\ o'.iface = o.iface
  BY <1>4 DEF FlagsKept, SkipsScan, Name
<1>6. NameUsed'
  <2> SUFFICES ASSUME o'.given \/ SkipsScan', pc' \in Late, o'.update => o'.given
               PROVE  interface' = Used' /\ (o'.given \/ files' \in {0, 1})
    BY <1>2 DEF NameUsed, Early, Late
  <2>1. (o.given \/ SkipsScan) /\ (o.update => o.given)
    <3>1. o.update => o'.update \/ o.given
      BY <1>1 DEF AskedInv
    <3> QED BY <1>5, <3>1
  <2>2. interface = Used /\ (o.given \/ files \in {0, 1})
    BY <1>1, <2>1 DEF AskedInv, NameUsed, Late
  <2>3. interface' = interface
    BY <2>2 DEF ShowQuery
  <2>4. Used' = Used
    BY <1>1, <1>5 DEF Used
  <2> QED BY <1>1, <1>5, <2>2, <2>3, <2>4
<1>7. Merged'
  BY <1>2 DEF Merged, Early
<1>8. AsAsked'
  <2> SUFFICES ASSUME shown' # {}, o'.given, ~UsesRecord'
               PROVE  shown' = IF HasPlus(o'.iface) THEN Range(Named[o'.iface]) ELSE {o'.iface}
    BY <1>1, <1>3 DEF AsAsked, UsesRecord, HasPlus
  <2>1. o.given /\ ~UsesRecord
    BY <1>4 DEF FlagsKept, UsesRecord
  <2>2. shown' = One(interface)
    BY <2>1 DEF ShowQuery
  <2>3. IF HasPlus(o.iface) THEN merged /\ data = Range(Named[o.iface]) ELSE ~merged
    BY <1>1, <1>3, <2>1 DEF AskedInv, Merged
  <2>4. interface = Used
    BY <1>1, <2>1 DEF AskedInv, NameUsed, Late
  <2>5. CASE merged
    BY <1>5, <2>2, <2>3, <2>5 DEF One
  <2>6. CASE ~merged
    <3>1. interface = o.iface
      BY <2>1, <2>4, <2>6 DEF Used, Name
    <3>2. shown' = {o.iface}
      BY <2>2, <2>6, <3>1 DEF One
    <3> QED BY <1>5, <2>3, <2>6, <3>2
  <2> QED BY <2>5, <2>6
<1> QED BY <1>1, <1>2, <1>3, <1>4, <1>6, <1>7, <1>8 DEF AskedInv, FlagsKept

\* The measurement of the name in use.
LEMMA MeasureAsked == ASSUME AskedInv, Measure PROVE AskedInv'
<1>1. /\ pc \in {"traffic", "live"} /\ pc' = "measuring" /\ measured' = interface
      /\ UNCHANGED <<o, interface, files, merged, data, shown>>
  BY DEF Measure
<1>2. StageWanted' /\ NameUsed' /\ Merged'
  BY <1>1 DEF StageWanted, NameUsed, Merged, Early, Late
<1>3. SkipsScan
  BY <1>1 DEF AskedInv, StageWanted, SkipsScan
<1>4. (o.update => o.given) => interface = Used
  BY <1>1, <1>3 DEF AskedInv, NameUsed, Late
<1>5. AsAsked'
  BY <1>1, <1>4 DEF AskedInv, AsAsked, Used, Name, HasPlus
<1> QED BY <1>1, <1>2, <1>5 DEF AskedInv

\* The stages between the merge and the update.
LEMMA StageAsked ==
    ASSUME AskedInv, SaveMerged \/ Reset \/ Sync \/ Delete \/ ClearTop \/ RebuildTotal \/ Activate
    PROVE  AskedInv'
<1>1. \A s \in {"reset", "sync", "cleartop", "rebuildtotal", "active"} : s \in Early \ {"merge"}
  BY DEF Early
<1>2. pc \in Early
  BY DEF SaveMerged, Reset, Sync, Delete, ClearTop, RebuildTotal, Activate, AtStage, Early
<1>3. ASSUME o' = o PROVE FlagsKept
  BY <1>3, ClearsFlags
<1>4. ASSUME o' = [o EXCEPT !.query = FALSE] PROVE FlagsKept /\ ~o'.query
  BY <1>4, ClearsFlags DEF AskedInv
<1>5. CASE Refuse
  BY <1>2, <1>5, RefuseAsked
<1>6. CASE SaveMerged
  BY <1>2, <1>6, ReturnAsked DEF SaveMerged, Return, Keep
<1>7. CASE Reset
  <2>1. pc = "reset" => UsesRecord
    BY DEF AskedInv, StageWanted, UsesRecord
  <2> QED BY <1>1, <1>3, <1>5, <1>7, <2>1, ChangeAsked DEF Reset, AtStage
<1>8. CASE Sync
  <2>1. pc = "sync" => UsesRecord
    BY DEF AskedInv, StageWanted, UsesRecord
  <2> QED BY <1>1, <1>3, <1>5, <1>8, <2>1, ChangeAsked DEF Sync, AtStage
<1>9. CASE Delete
  BY <1>2, <1>5, <1>9, ReturnAsked DEF Delete, Return, Keep, StageUnchanged
<1>10. CASE ClearTop
  BY <1>1, <1>4, <1>5, <1>10, ChangeAsked DEF ClearTop
<1>11. CASE RebuildTotal
  BY <1>1, <1>4, <1>5, <1>11, ChangeAsked DEF RebuildTotal
<1>12. CASE Activate
  <2>1. pc = "active" /\ UsesRecord
    BY <1>12 DEF Activate, AtStage, AskedInv, StageWanted, UsesRecord
  <2>2. CASE \E r : o' = o /\ ChangeRecord("active", r)
    BY <1>1, <1>3, <1>12, <2>1, <2>2, ChangeAsked DEF Activate
  <2>3. CASE o' = o /\ Onward("active") /\ Keep /\ StageUnchanged /\ UNCHANGED interface
    BY <1>1, <1>3, <2>1, <2>3, StagePasses DEF Keep, StageUnchanged
  <2> QED BY <1>5, <1>12, <2>2, <2>3 DEF Activate
<1> QED BY <1>6, <1>7, <1>8, <1>9, <1>10, <1>11, <1>12

\* The update of one database, or of all.
LEMMA UpdateAsked ==
    ASSUME AskedInv, UpdateAll \/ UpdateNext \/ UpdateEnd \/ UpdateNamed PROVE AskedInv'
<1>1. "update" \in Early \ {"merge"} /\ "updating" \notin Early \cup Late
  BY DEF Early, Late
<1>2. pc = "update" => UsesRecord
  BY DEF AskedInv, StageWanted, UsesRecord
<1>3. CASE UpdateNamed
  <2>1. pc = "update"
    BY <1>3 DEF UpdateNamed, AtStage
  <2>2. CASE Refuse
    BY <1>1, <2>1, <2>2, RefuseAsked
  <2>3. CASE o' = o /\ interface' = interface /\ StageUnchanged /\ Keep /\ Onward("update")
    BY <1>1, <1>2, <2>1, <2>3, ClearsFlags, StagePasses DEF Keep, StageUnchanged
  <2> QED BY <1>3, <2>2, <2>3 DEF UpdateNamed
<1>4. CASE UpdateAll
  <2>1. pc = "update" /\ ~o.given
    BY <1>4 DEF UpdateAll, AtStage
  <2>2. CASE Refuse
    BY <1>1, <2>1, <2>2, RefuseAsked
  <2>3. CASE pc' = "updating" /\ Keep /\ UNCHANGED <<o, merged, shown>>
    <3>1. measured = None /\ shown = {}
      BY <1>1, <2>1, NothingYet
    <3>2. StageWanted'
      BY <2>1, <2>3 DEF AskedInv, StageWanted
    <3>3. NameUsed' /\ Merged'
      BY <2>3 DEF NameUsed, Merged, Early, Late
    <3> QED BY <2>3, <3>1, <3>2, <3>3 DEF AskedInv, AsAsked, Keep
  <2>4. CASE /\ o' = [o EXCEPT !.update = FALSE] /\ Onward("update")
             /\ Keep /\ StageUnchanged /\ UNCHANGED <<interface, data>>
    BY <1>1, <2>1, <2>4, ClearsFlags, StagePasses DEF Keep, StageUnchanged
  <2> QED BY <1>4, <2>2, <2>3, <2>4 DEF UpdateAll
<1>5. CASE UpdateNext \/ UpdateEnd
  <2>1. /\ pc = "updating" /\ o.update /\ ~o.given /\ measured = None /\ shown = {}
        /\ UNCHANGED <<o, merged, measured, shown>>
    BY <1>5, NothingYet DEF UpdateNext, UpdateEnd, Keep, AskedInv, StageWanted
  <2>2. CASE pc' = "exit"
    BY <2>1, <2>2, ReturnAsked
  <2>3. CASE UNCHANGED pc
    <3>1. StageWanted'
      BY <2>1, <2>3 DEF AskedInv, StageWanted
    <3>2. NameUsed' /\ Merged'
      BY <2>1, <2>3 DEF NameUsed, Merged, Early, Late
    <3> QED BY <2>1, <3>1, <3>2 DEF AskedInv, AsAsked
  <2>4. CASE UpdateEnd
    <3>1. pc' \in {"exit"} \cup Late /\ StageWanted'
      BY <1>1, <2>4, AfterUpdate, StillWanted DEF UpdateEnd
    <3>2. NameUsed' /\ Merged'
      BY <2>1, <3>1 DEF NameUsed, Merged, Early, Late
    <3> QED BY <2>1, <3>1, <3>2 DEF AskedInv, AsAsked
  <2> QED BY <1>5, <2>2, <2>3, <2>4 DEF UpdateNext, Return
<1> QED BY <1>3, <1>4, <1>5

\* Nor does another step of the whole command disturb it.
LEMMA AskedNext == AskedInv /\ NameInv /\ [Next]_vars => AskedInv'
<1> SUFFICES ASSUME AskedInv, NameInv, [Next]_vars PROVE AskedInv'
  OBVIOUS
<1>1. CASE CliNext \/ ParseDisk \/ Measure
  BY <1>1, ParseAsked, ScanAsked, MergeAsked, StageAsked, UpdateAsked, ShowAsked, MeasureAsked
     DEF CliNext, Stage
<1>2. CASE UNCHANGED cvars
  BY <1>2 DEF cvars, AskedInv, StageWanted, NameUsed, Merged, AsAsked, Name, Used, UsesRecord,
              SkipsScan, HasPlus
<1> QED BY <1>1, <1>2, StepsOfCli

\* Whatever the arguments are and whatever databases there are, -tr and -l
\* measure the interface that was asked for, and what is shown of one that -i
\* gives is that one, or the whole of the merge.
THEOREM AsAskedAlways == Spec => []AsAsked
<1>1. AskedInv => AsAsked
  BY DEF AskedInv
<1> QED BY NameInit, NameNext, AskedInit, AskedNext, <1>1, PTL DEF Spec

-----------------------------------------------------------------------------
(***************************************************************************)
(* Loops over a sequence, which are folds from the left.                   *)
(***************************************************************************)

\* What holds of 0 and, if it holds of the number before, of any up to top.
LEMMA UpTo ==
    ASSUME NEW top \in Nat, NEW Good, 0 \in Good,
           \A j \in 1..top : j - 1 \in Good => j \in Good
    PROVE  top \in Good
<1> DEFINE bad == {j \in 0..top : j \notin Good}
<1>1. SUFFICES ASSUME top \notin Good PROVE FALSE
  OBVIOUS
<1>2. bad \in SUBSET Nat /\ bad # {}
  BY <1>1
<1>3. PICK j \in bad : \A k \in bad : j <= k
  BY <1>2, Least
<1>4. j \in 1..top /\ j - 1 \in 0..top /\ ~(j <= j - 1)
  BY <1>3
<1> QED BY <1>3, <1>4

\* The greatest of some first numbers.
LEMMA MaxOfFirst ==
    ASSUME NEW top \in Nat
    PROVE  /\ \A s \in SUBSET (1..top) : s # {} => Max(s) \in s
           /\ \A j \in 1..top : Max(1..j) = j /\ (1..j) \ {j} = 1..(j - 1)
<1>1. ASSUME NEW s \in SUBSET (1..top), s # {} PROVE Max(s) \in s
  <2> DEFINE Gaps == {top - x : x \in s}
  <2>1. Gaps \in SUBSET Nat /\ Gaps # {}
    <3>1. \A x \in s : top - x \in Nat
      OBVIOUS
    <3>2. PICK x \in s : TRUE
      BY <1>1
    <3>3. top - x \in Gaps
      BY <3>2
    <3> QED BY <3>1, <3>3
  <2>2. PICK g \in Gaps : \A h \in Gaps : g <= h
    BY <2>1, Least
  <2>3. PICK x \in s : g = top - x
    BY <2>2
  <2>4. \A y \in s : x >= y
    <3> SUFFICES ASSUME NEW y \in s PROVE x >= y
      OBVIOUS
    <3>1. top - x <= top - y
      BY <2>2, <2>3
    <3>2. x \in Int /\ y \in Int
      OBVIOUS
    <3> QED BY <3>1, <3>2
  <2>5. \E z \in s : \A y \in s : z >= y
    BY <2>4
  <2> QED BY <2>5 DEF Max
<1>2. ASSUME NEW j \in 1..top PROVE Max(1..j) = j /\ (1..j) \ {j} = 1..(j - 1)
  <2>1. 1..j \in SUBSET (1..top) /\ j \in 1..j
    OBVIOUS
  <2>2. \E z \in 1..j : \A y \in 1..j : z >= y
    BY <2>1
  <2>3. Max(1..j) \in 1..j /\ \A y \in 1..j : Max(1..j) >= y
    BY <2>2 DEF Max
  <2>4. Max(1..j) >= j
    BY <2>1, <2>3
  <2>5. Max(1..j) = j
    BY <2>3, <2>4
  <2> QED BY <2>5
<1> QED BY <1>1, <1>2

\* The recursive function of a fold from the left over seq: what it makes of
\* the elements at the places s, each after those before it.
Folds(iter, op, zero, seq) ==
    \A s \in SUBSET (DOMAIN seq) :
        iter[s] = IF s = {} THEN zero ELSE op[<<iter[s \ {Max(s)}], seq[Max(s)]>>]

\* It exists, if op has values in V for values in V.
LEMMA FoldsExists ==
    ASSUME NEW S, NEW seq \in Seq(S), NEW V, NEW zero \in V, NEW op \in [V \X S -> V]
    PROVE  \E g \in [SUBSET (DOMAIN seq) -> V] : Folds(g, op, zero, seq)
<1> DEFINE D == DOMAIN seq
           pick == [s \in SUBSET D |-> Max(s)]
           take == [p \in D \X V |-> op[<<p[2], seq[p[1]]>>]]
<1>1. D = 1..Len(seq) /\ Len(seq) \in Nat /\ \A i \in D : seq[i] \in S
  OBVIOUS
<1>2. IsFiniteSet(D)
  BY <1>1, FS_Interval
<1>3. Picks(pick, D)
  BY <1>1, MaxOfFirst DEF Picks
<1>4. take \in [D \X V -> V]
  <2>1. ASSUME NEW p \in D \X V PROVE op[<<p[2], seq[p[1]]>>] \in V
    <3>1. p[1] \in D /\ p[2] \in V
      OBVIOUS
    <3>2. <<p[2], seq[p[1]]>> \in V \X S
      BY <1>1, <3>1
    <3> QED BY <3>2
  <2> QED BY <2>1
<1> HIDE DEF take
<1>5. PICK g \in [SUBSET D -> V] : Takes(g, take, zero, pick, D)
  BY <1>2, <1>3, <1>4, TakingExists
<1>6. ASSUME NEW s \in SUBSET D
      PROVE  g[s] = IF s = {} THEN zero ELSE op[<<g[s \ {Max(s)}], seq[Max(s)]>>]
  <2>1. CASE s = {}
    BY <1>5, <2>1 DEF Takes
  <2>2. CASE s # {}
    <3>1. pick[s] = Max(s) /\ Max(s) \in D
      BY <1>1, <2>2, MaxOfFirst
    <3>2. g[s] = take[<<Max(s), g[s \ {Max(s)}]>>] /\ g[s \ {Max(s)}] \in V
      BY <1>5, <2>2, <3>1 DEF Takes
    <3> QED BY <2>2, <3>1, <3>2 DEF take
  <2> QED BY <2>1, <2>2
<1> QED BY <1>6 DEF Folds

-----------------------------------------------------------------------------
(***************************************************************************)
(* The disk report.                                                        *)
(***************************************************************************)

SlotRecs == [name : STRING \cup {NoDevice}, used : BOOLEAN, registered : BOOLEAN]
Samples == [sec : 0..Mask, ios : BOOLEAN]
Pairs == [{0, 1} -> Samples]
Disks == [here : BOOLEAN, sec : 0..Mask, ios : BOOLEAN]

DiskTypes ==
    /\ disk \in [Names -> Disks]
    /\ "dlist" \in DOMAIN opts /\ opts.dlist \in Seq(STRING)
    /\ slot \in Seq(SlotRecs) /\ sample \in [Slots -> Pairs]
    /\ curr \in {0, 1}
    /\ seen \subseteq Names /\ moved \in [Names -> 0..Mask]
    /\ dpc = "off" => seen = {}

\* A device has one slot, and a slot that is used has a device.
OwnSlots(slots) ==
    /\ \A i, j \in DOMAIN slots : slots[i].name # NoDevice /\ slots[i].name = slots[j].name => i = j
    /\ \A i \in DOMAIN slots : slots[i].used => slots[i].name \in Names

\* The sample of the last round.
Newest == IF dpc \in {"show", "exit"} THEN curr ELSE 1 - curr

\* The slots that are used are those of the devices seen in the last round that
\* could be read; a device has read moved[d] sectors since its sample there.
Kept ==
    /\ \A d \in seen : \E i \in Slots : slot[i].used /\ slot[i].name = d
    /\ \A i \in Slots : slot[i].used =>
          /\ slot[i].name \in seen
          /\ readable /\ Present(slot[i].name) /\ slot[i].name \notin replugged =>
                disk[slot[i].name].sec
                  = (sample[i][Newest].sec + moved[slot[i].name]) % (Mask + 1)

DiskInv == DiskTypes /\ OwnSlots(slot) /\ Kept /\ SamplesRight

-----------------------------------------------------------------------------
\* Devices have names, and there are finitely many.
LEMMA DeviceNames == Names \subseteq STRING \ {NoDevice} /\ IsFiniteSet(Names)
<1>1. Devices \in Seq(STRING \ {NoDevice})
  BY DiskAssumption
<1>2. \A i \in DOMAIN Devices : Devices[i] \in STRING \ {NoDevice}
  BY <1>1
<1>3. Names = {Devices[i] : i \in DOMAIN Devices}
  BY DEF Names, Range
<1>4. IsFiniteSet(DOMAIN Devices)
  <2>1. DOMAIN Devices = 1..Len(Devices) /\ Len(Devices) \in Nat
    BY <1>1
  <2> QED BY <2>1, FS_Interval
<1>5. Devices \in Surjection(DOMAIN Devices, Names)
  <2>1. Devices \in [DOMAIN Devices -> Names]
    BY <1>1, <1>3
  <2> QED BY <1>3, <2>1 DEF Surjection
<1> QED BY <1>2, <1>3, <1>4, <1>5, FS_Surjection

\* The difference of two samples is what was read in between, once wrapped or not.
LEMMA SectorsRight ==
    ASSUME NEW p \in 0..Mask, NEW m \in 0..Mask
    PROVE  Sectors((p + m) % (Mask + 1), p) = m
<1> DEFINE M == Mask + 1  c == (p + m) % M
<1>0. M \in Nat \ {0} /\ Width \in Nat /\ Width >= M /\ Width % M = 0 /\ Width # 0
      /\ p \in Nat /\ m \in Nat /\ p < M /\ m < M
  BY DiskAssumption
<1> HIDE DEF M
<1>1. CASE p + m < M
  <2>1. c = p + m
    BY <1>0, <1>1, DivUnique
  <2>2. m \in 0..(Width - 1) /\ m = Width * 0 + m
    BY <1>0, <1>1
  <2>3. m % Width = m
    BY <1>0, <2>2, DivUnique
  <2>4. c - p = m /\ ~(c < p)
    BY <1>0, <2>1
  <2> QED BY <2>3, <2>4 DEF Sectors, M
<1>2. CASE p + m >= M
  <2>1. p + m = M * 1 + (p + m - M) /\ p + m - M \in 0..(M - 1) /\ p + m \in Int
        /\ m \in 0..(M - 1)
    BY <1>0, <1>2
  <2>2. c = p + m - M
    BY <1>0, <2>1, DivUnique
  <2>3. c - p = m - M /\ c < p /\ m - M \in Int
    BY <1>0, <2>1, <2>2
  <2>4. m - M = Width * (-1) + (Width - M + m) /\ Width - M + m \in 0..(Width - 1)
    BY <1>0, <2>1
  <2>5. (m - M) % Width = Width - M + m
    <3>1. -1 \in Int /\ Width \in Nat \ {0}
      BY <1>0
    <3> QED BY <2>3, <2>4, <3>1, DivUnique
  <2> DEFINE q == Width \div M
  <2>6. q \in Int /\ Width = M * q
    BY <1>0, DivMod
  <2> HIDE DEF q
  <2>7. Width - M + m = M * (q - 1) + m /\ q - 1 \in Int /\ Width - M + m \in Int
    <3>1. M * (q - 1) = M * q - M
      BY <1>0, <2>6
    <3> QED BY <1>0, <2>1, <2>6, <3>1
  <2>8. (Width - M + m) % M = m
    BY <1>0, <2>1, <2>7, DivUnique
  <2> QED BY <2>1, <2>3, <2>5, <2>8 DEF Sectors, M
<1> QED BY <1>0, <1>1, <1>2

-----------------------------------------------------------------------------
\* A table with the slots I.
Tables(I) == [slot : [I -> SlotRecs], sample : [I -> Pairs]]

Now(d) == [sec |-> disk[d].sec, ios |-> disk[d].ios]

\* The first of some numbers is one of them.
LEMMA FirstOf == ASSUME NEW S \in SUBSET Nat, S # {} PROVE First(S) \in S
<1>1. \E i \in S : \A j \in S : i <= j
  BY Least
<1> QED BY <1>1 DEF First

\* Where a device may go: its slot, or if it has none the first that is free.
LEMMA SlotChosen ==
    ASSUME NEW I \in SUBSET Nat, NEW t \in Tables(I), NEW d, SlotOf(t, d) # {}
    PROVE  /\ First(SlotOf(t, d)) \in I
           /\ LET i == First(SlotOf(t, d)) IN
              \/ t.slot[i].name = d
              \/ ~t.slot[i].used /\ \A j \in I : t.slot[j].name # d
<1> DEFINE named == {i \in DOMAIN t.slot : t.slot[i].name = d}
           free == {i \in DOMAIN t.slot : ~t.slot[i].used}
<1>1. DOMAIN t.slot = I
  BY DEF Tables
<1>2. CASE named # {}
  <2>1. First(named) \in named
    BY <1>1, <1>2, FirstOf
  <2>2. SlotOf(t, d) = {First(named)}
    BY <1>2 DEF SlotOf
  <2>3. First({First(named)}) = First(named)
    BY DEF First
  <2> QED BY <1>1, <2>1, <2>2, <2>3
<1>3. CASE named = {} /\ free # {}
  <2>1. First(free) \in free
    BY <1>1, <1>3, FirstOf
  <2>2. SlotOf(t, d) = {First(free)}
    BY <1>3 DEF SlotOf
  <2>3. First({First(free)}) = First(free)
    BY DEF First
  <2> QED BY <1>1, <1>3, <2>1, <2>2, <2>3
<1> QED BY <1>2, <1>3 DEF SlotOf

LEMMA NoSlot ==
    ASSUME NEW I, NEW t \in Tables(I), NEW d, SlotOf(t, d) = {}
    PROVE  \A i \in I : t.slot[i].used /\ t.slot[i].name # d
  BY DEF SlotOf, Tables, SlotRecs

-----------------------------------------------------------------------------
\* What a slot i of d has, given the table at the beginning of the round: the
\* present sample, and the one before if the slot was already used for d.
Filed(t, i, d) ==
    /\ t.sample[i][curr] = Now(d)
    /\ t.sample[i][1 - curr] = IF slot[i].used /\ slot[i].name = d THEN sample[i][1 - curr]
                               ELSE NoSample

\* The table t when the devices done have been found in this round: they have
\* slots, unless all are used; the other slots are as they were; and no slot
\* that was used has changed hands.
RoundOk(t, done) ==
    /\ t \in Tables(Slots) /\ OwnSlots(t.slot) /\ done \subseteq Found
    /\ \A i \in Slots :
          IF t.slot[i].registered
          THEN t.slot[i].used /\ t.slot[i].name \in done /\ Filed(t, i, t.slot[i].name)
          ELSE /\ t.slot[i].used = slot[i].used /\ t.slot[i].name = slot[i].name
               /\ t.sample[i] = sample[i]
    /\ \A i \in Slots : slot[i].used => t.slot[i].used /\ t.slot[i].name = slot[i].name
    /\ \A d \in done :
          \/ \E i \in Slots : t.slot[i].registered /\ t.slot[i].name = d
          \/ \A i \in Slots : t.slot[i].used /\ t.slot[i].name # d

\* A device is put into one slot.
LEMMA PutIs ==
    ASSUME NEW I, NEW t \in Tables(I), NEW i \in I, NEW d \in STRING, NEW s \in Samples,
           NEW fresh \in BOOLEAN, curr \in {0, 1}
    PROVE  LET u == Put(t, i, d, s, fresh) IN
           /\ u \in Tables(I)
           /\ u.slot[i] = [name |-> d, used |-> TRUE, registered |-> TRUE]
           /\ u.sample[i][curr] = s
           /\ u.sample[i][1 - curr] = IF fresh THEN NoSample ELSE t.sample[i][1 - curr]
           /\ \A j \in I \ {i} : u.slot[j] = t.slot[j] /\ u.sample[j] = t.sample[j]
<1> DEFINE u == Put(t, i, d, s, fresh)
           new == [name |-> d, used |-> TRUE, registered |-> TRUE]
           pair == [k \in {0, 1} |-> IF k = curr THEN s
                                     ELSE IF fresh THEN NoSample ELSE t.sample[i][k]]
<1>1. t.slot \in [I -> SlotRecs] /\ t.sample \in [I -> Pairs] /\ new \in SlotRecs
  BY DEF Tables, SlotRecs
<1>2. NoSample \in Samples
  BY DiskAssumption DEF NoSample, Samples
<1>3. 1 - curr \in {0, 1} /\ 1 - curr # curr
  OBVIOUS
<1>4. pair \in Pairs /\ pair[curr] = s
      /\ pair[1 - curr] = IF fresh THEN NoSample ELSE t.sample[i][1 - curr]
  BY <1>1, <1>2, <1>3 DEF Pairs
<1> HIDE DEF pair, new
<1>5. u = [slot |-> [t.slot EXCEPT ![i] = new], sample |-> [t.sample EXCEPT ![i] = pair]]
  BY DEF Put, pair, new
<1>6. u.slot = [t.slot EXCEPT ![i] = new] /\ u.sample = [t.sample EXCEPT ![i] = pair]
  BY <1>5
<1>7. u \in Tables(I)
  BY <1>1, <1>4, <1>5 DEF Tables
<1>8. u.slot[i] = new /\ u.sample[i] = pair
      /\ \A j \in I \ {i} : u.slot[j] = t.slot[j] /\ u.sample[j] = t.sample[j]
  BY <1>1, <1>6
<1> HIDE DEF u
<1> QED BY <1>4, <1>7, <1>8 DEF u, new

LEMMA SlotsAre ==
    ASSUME DiskTypes
    PROVE  /\ Slots \in SUBSET Nat /\ Slots = 1..Len(slot) /\ Len(slot) \in Nat
           /\ \A d \in Found : d \in Names /\ d \in STRING /\ d # NoDevice
<1>1. slot \in Seq(SlotRecs)
  BY DEF DiskTypes
<1>2. Slots = 1..Len(slot) /\ Len(slot) \in Nat
  BY <1>1 DEF Slots
<1>3. Found \subseteq Names
  BY Zenon DEF Found
<1>4. \A d \in Names : d \in STRING /\ d # NoDevice
  BY DeviceNames
<1> QED BY <1>2, <1>3, <1>4

LEMMA NowIs ==
    ASSUME DiskTypes, NEW d \in Names PROVE Now(d) \in Samples
  BY DEF DiskTypes, Now, Disks, Samples

\* What a line or file of d leaves of the table.
LEMMA TakeType ==
    ASSUME DiskTypes, NEW t \in Tables(Slots), NEW d \in STRING
    PROVE  TakeIn(t, d) \in Tables(Slots)
<1>1. CASE d \notin Found \/ SlotOf(t, d) = {}
  BY <1>1 DEF TakeIn, save_stats
<1>2. CASE d \in Found /\ SlotOf(t, d) # {}
  <2> DEFINE i == First(SlotOf(t, d))
  <2>1. d \in Names /\ Slots \in SUBSET Nat
    BY <1>2, SlotsAre
  <2>2. i \in Slots
    BY <1>2, <2>1, SlotChosen
  <2>3. (~t.slot[i].used) \in BOOLEAN /\ curr \in {0, 1} /\ Now(d) \in Samples
    BY <2>1, NowIs DEF DiskTypes
  <2> HIDE DEF i
  <2>4. TakeIn(t, d) = Put(t, i, d, Now(d), ~t.slot[i].used)
    BY <1>2 DEF TakeIn, save_stats, Now, i
  <2>5. Put(t, i, d, Now(d), ~t.slot[i].used) \in Tables(Slots)
    BY <2>2, <2>3, PutIs
  <2> QED BY <2>4, <2>5
<1> QED BY <1>1, <1>2

-----------------------------------------------------------------------------
LEMMA LookedForType == ASSUME DiskTypes PROVE LookedFor \in Seq(STRING)
<1>1. Devices \in Seq(STRING)
  BY DiskAssumption
<1> QED BY <1>1 DEF LookedFor, DiskTypes

\* A round takes one line or file after another.
LEMMA RoundSteps ==
    ASSUME DiskTypes, NEW t0 \in Tables(Slots)
    PROVE  \E h : /\ h[0] = t0
                  /\ \A j \in 1..Len(LookedFor) : h[j] = TakeIn(h[j - 1], LookedFor[j])
                  /\ FoldLeft(TakeIn, t0, LookedFor) = h[Len(LookedFor)]
<1> DEFINE T == Tables(Slots)
           op == [p \in T \X STRING |-> TakeIn(p[1], p[2])]
           seq == LookedFor
           D == DOMAIN seq
           Step1(f, s) == IF s = {} THEN t0 ELSE TakeIn(f[s \ {Max(s)}], seq[Max(s)])
           iter == CHOOSE f : f = [s \in SUBSET D |-> Step1(f, s)]
           h == [j \in 0..Len(seq) |-> iter[1..j]]
<1>0. seq \in Seq(STRING) /\ D = 1..Len(seq) /\ Len(seq) \in Nat /\ \A k \in D : seq[k] \in STRING
  BY LookedForType
<1>1. FoldLeft(TakeIn, t0, seq) = iter[D]
  BY DEF FoldLeft, MapThenFoldSet
<1> HIDE DEF seq
<1>2. op \in [T \X STRING -> T]
  <2>1. ASSUME NEW p \in T \X STRING PROVE TakeIn(p[1], p[2]) \in T
    <3>1. p[1] \in T /\ p[2] \in STRING
      OBVIOUS
    <3> QED BY <3>1, TakeType
  <2> QED BY <2>1
<1>3. \A t \in T, d \in STRING : op[<<t, d>>] = TakeIn(t, d)
  OBVIOUS
<1> HIDE DEF op, T
<1>4. PICK g \in [SUBSET D -> T] : Folds(g, op, t0, seq)
  BY <1>0, <1>2, FoldsExists DEF T
<1>5. ASSUME NEW s \in SUBSET D PROVE g[s] = Step1(g, s)
  <2>1. CASE s = {}
    BY <1>4, <2>1 DEF Folds
  <2>2. CASE s # {}
    <3>1. Max(s) \in D /\ s \ {Max(s)} \in SUBSET D
      BY <1>0, <2>2, MaxOfFirst
    <3>2. g[s \ {Max(s)}] \in T /\ seq[Max(s)] \in STRING
      BY <1>0, <1>4, <3>1
    <3>3. g[s] = op[<<g[s \ {Max(s)}], seq[Max(s)]>>]
      BY <1>4, <2>2 DEF Folds
    <3> QED BY <1>3, <2>2, <3>2, <3>3
  <2> QED BY <2>1, <2>2
<1>6. g = [s \in SUBSET D |-> Step1(g, s)]
  <2>1. g = [s \in SUBSET D |-> g[s]]
    BY <1>4
  <2> QED BY <1>5, <2>1, Zenon
<1>7. iter = [s \in SUBSET D |-> Step1(iter, s)]
  BY <1>6, Zenon
<1> HIDE DEF iter
<1>8. \A s \in SUBSET D : iter[s] = Step1(iter, s)
  BY <1>7, Zenon
<1>9. h[0] = t0
  <2>1. h[0] = iter[1..0] /\ 1..0 = {} /\ {} \in SUBSET D
    BY <1>0
  <2> QED BY <1>8, <2>1
<1>10. ASSUME NEW j \in 1..Len(seq) PROVE h[j] = TakeIn(h[j - 1], seq[j])
  <2>1. 1..j \in SUBSET D /\ 1..j # {} /\ Max(1..j) = j /\ (1..j) \ {j} = 1..(j - 1)
        /\ j \in 0..Len(seq) /\ j - 1 \in 0..Len(seq)
    BY <1>0, MaxOfFirst
  <2>2. h[j] = iter[1..j] /\ h[j - 1] = iter[1..(j - 1)]
    BY <2>1
  <2> HIDE DEF h
  <2>3. iter[1..j] = TakeIn(iter[(1..j) \ {Max(1..j)}], seq[Max(1..j)])
    BY <1>8, <2>1
  <2> QED BY <2>1, <2>2, <2>3
<1>11. h[Len(seq)] = iter[D]
  BY <1>0
<1> HIDE DEF h
<1> QED BY <1>1, <1>9, <1>10, <1>11 DEF seq

\* A device that is found again, or for the first time, keeps the table right.
LEMMA PutOk ==
    ASSUME DiskTypes, NEW t, NEW done, RoundOk(t, done), NEW d \in Found, NEW i \in Slots,
           t.slot[i].name = d \/ (~t.slot[i].used /\ \A j \in Slots : t.slot[j].name # d)
    PROVE  RoundOk(Put(t, i, d, Now(d), ~t.slot[i].used), done \cup {d})
<1> DEFINE u == Put(t, i, d, Now(d), ~t.slot[i].used)
<1>0. t \in Tables(Slots) /\ OwnSlots(t.slot) /\ done \subseteq Found
  BY DEF RoundOk
<1>1. d \in Names /\ d \in STRING /\ d # NoDevice
  BY SlotsAre
<1>2. Now(d) \in Samples /\ (~t.slot[i].used) \in BOOLEAN /\ curr \in {0, 1}
  BY <1>1, NowIs DEF DiskTypes
<1>3. /\ u \in Tables(Slots)
      /\ u.slot[i] = [name |-> d, used |-> TRUE, registered |-> TRUE]
      /\ u.sample[i][curr] = Now(d)
      /\ u.sample[i][1 - curr] = IF ~t.slot[i].used THEN NoSample ELSE t.sample[i][1 - curr]
      /\ \A j \in Slots \ {i} : u.slot[j] = t.slot[j] /\ u.sample[j] = t.sample[j]
  <2> DEFINE fresh == ~t.slot[i].used
             s == Now(d)
  <2>1. fresh \in BOOLEAN /\ s \in Samples /\ u = Put(t, i, d, s, fresh)
    BY <1>2
  <2> HIDE DEF fresh, s, u
  <2>2. LET v == Put(t, i, d, s, fresh) IN
        /\ v \in Tables(Slots)
        /\ v.slot[i] = [name |-> d, used |-> TRUE, registered |-> TRUE]
        /\ v.sample[i][curr] = s
        /\ v.sample[i][1 - curr] = IF fresh THEN NoSample ELSE t.sample[i][1 - curr]
        /\ \A j \in Slots \ {i} : v.slot[j] = t.slot[j] /\ v.sample[j] = t.sample[j]
    BY <1>0, <1>1, <1>2, <2>1, PutIs
  <2> QED BY <2>1, <2>2 DEF fresh, s
<1> HIDE DEF u
<1>4. DOMAIN u.slot = Slots /\ DOMAIN t.slot = Slots
  BY <1>0, <1>3 DEF Tables
<1>5. u.slot[i].name = d /\ u.slot[i].used /\ u.slot[i].registered
  BY <1>3
<1>6. \A j \in Slots \ {i} : t.slot[j].name # d
  BY <1>0, <1>1, <1>4 DEF OwnSlots
<1>7. OwnSlots(u.slot)
  <2>1. ASSUME NEW j \in Slots, NEW k \in Slots, u.slot[j].name # NoDevice,
               u.slot[j].name = u.slot[k].name
        PROVE  j = k
    <3>1. CASE j # i /\ k # i
      BY <1>0, <1>3, <1>4, <2>1, <3>1 DEF OwnSlots
    <3>2. CASE j = i \/ k = i
      BY <1>3, <1>5, <1>6, <2>1, <3>2
    <3> QED BY <3>1, <3>2
  <2>2. ASSUME NEW j \in Slots, u.slot[j].used PROVE u.slot[j].name \in Names
    BY <1>0, <1>1, <1>3, <1>4, <1>5, <2>2 DEF OwnSlots
  <2> QED BY <1>4, <2>1, <2>2 DEF OwnSlots
<1>8. ASSUME NEW j \in Slots
      PROVE  IF u.slot[j].registered
             THEN u.slot[j].used /\ u.slot[j].name \in done \cup {d} /\ Filed(u, j, u.slot[j].name)
             ELSE /\ u.slot[j].used = slot[j].used /\ u.slot[j].name = slot[j].name
                  /\ u.sample[j] = sample[j]
  <2>1. CASE j # i
    BY <1>3, <2>1 DEF RoundOk, Filed
  <2>2. CASE j = i
    <3>1. u.sample[i][1 - curr] = IF slot[i].used /\ slot[i].name = d THEN sample[i][1 - curr]
                                  ELSE NoSample
      <4>1. CASE t.slot[i].registered
        <5>1. t.slot[i].used /\ Filed(t, i, t.slot[i].name)
          BY <4>1 DEF RoundOk
        <5>2. t.slot[i].name = d
          BY <5>1
        <5> QED BY <1>3, <5>1, <5>2 DEF Filed
      <4>2. CASE ~t.slot[i].registered
        <5>1. t.slot[i].used = slot[i].used /\ t.slot[i].name = slot[i].name
              /\ t.sample[i] = sample[i]
          BY <4>2 DEF RoundOk
        <5> QED BY <1>3, <5>1
      <4> QED BY <4>1, <4>2
    <3>2. Filed(u, i, d)
      BY <1>3, <3>1 DEF Filed
    <3> QED BY <1>5, <2>2, <3>2
  <2> QED BY <2>1, <2>2
<1>9. ASSUME NEW j \in Slots, slot[j].used
      PROVE  u.slot[j].used /\ u.slot[j].name = slot[j].name
  <2>1. t.slot[j].used /\ t.slot[j].name = slot[j].name
    BY <1>9 DEF RoundOk
  <2> QED BY <1>3, <1>5, <2>1
<1>10. ASSUME NEW e \in done \cup {d}
       PROVE  \/ \E j \in Slots : u.slot[j].registered /\ u.slot[j].name = e
              \/ \A j \in Slots : u.slot[j].used /\ u.slot[j].name # e
  <2>1. CASE e = d
    BY <1>5, <2>1
  <2>2. CASE e # d /\ \E j \in Slots : t.slot[j].registered /\ t.slot[j].name = e
    <3>1. PICK j \in Slots : t.slot[j].registered /\ t.slot[j].name = e
      BY <2>2
    <3>2. t.slot[j].used
      BY <3>1 DEF RoundOk
    <3>3. j # i
      BY <2>2, <3>1, <3>2
    <3> QED BY <1>3, <3>1, <3>3
  <2>3. CASE e # d /\ \A j \in Slots : t.slot[j].used /\ t.slot[j].name # e
    BY <1>3, <1>5, <2>3
  <2> QED BY <2>1, <2>2, <2>3 DEF RoundOk
<1>11. done \cup {d} \subseteq Found
  BY <1>0
<1>12. RoundOk(u, done \cup {d})
  BY <1>3, <1>7, <1>8, <1>9, <1>10, <1>11 DEF RoundOk
<1> QED BY <1>12 DEF u

\* So does a line or file of any name.
LEMMA TakeOk ==
    ASSUME DiskTypes, NEW t, NEW done, RoundOk(t, done), NEW d \in STRING
    PROVE  RoundOk(TakeIn(t, d), done \cup ({d} \cap Found))
<1>0. t \in Tables(Slots) /\ Slots \in SUBSET Nat
  BY SlotsAre DEF RoundOk
<1>1. CASE d \notin Found
  <2>1. TakeIn(t, d) = t /\ done \cup ({d} \cap Found) = done
    BY <1>1 DEF TakeIn
  <2> QED BY <2>1
<1>2. CASE d \in Found /\ SlotOf(t, d) = {}
  <2>1. TakeIn(t, d) = t /\ done \cup ({d} \cap Found) = done \cup {d}
    BY <1>2 DEF TakeIn, save_stats
  <2>2. \A i \in Slots : t.slot[i].used /\ t.slot[i].name # d
    BY <1>0, <1>2, NoSlot
  <2>3. done \cup {d} \subseteq Found
    BY <1>2 DEF RoundOk
  <2>4. RoundOk(t, done \cup {d})
    BY <2>2, <2>3 DEF RoundOk
  <2> QED BY <2>1, <2>4
<1>3. CASE d \in Found /\ SlotOf(t, d) # {}
  <2> DEFINE i == First(SlotOf(t, d))
  <2>1. i \in Slots
        /\ (t.slot[i].name = d \/ (~t.slot[i].used /\ \A j \in Slots : t.slot[j].name # d))
    BY <1>0, <1>3, SlotChosen
  <2> HIDE DEF i
  <2>2. TakeIn(t, d) = Put(t, i, d, Now(d), ~t.slot[i].used)
    BY <1>3 DEF TakeIn, save_stats, Now, i
  <2>3. RoundOk(Put(t, i, d, Now(d), ~t.slot[i].used), done \cup {d})
    BY <1>3, <2>1, PutOk
  <2>4. done \cup ({d} \cap Found) = done \cup {d}
    BY <1>3
  <2> QED BY <2>2, <2>3, <2>4
<1> QED BY <1>1, <1>2, <1>3

\* At the beginning of a round no slot is registered.
LEMMA RoundBegins ==
    ASSUME DiskTypes, OwnSlots(slot)
    PROVE  RoundOk(set_entries_unregistered([slot |-> slot, sample |-> sample]), {})
<1> DEFINE fresh == [i \in Slots |-> [slot[i] EXCEPT !.registered = FALSE]]
           t == [slot |-> fresh, sample |-> sample]
<1>1. set_entries_unregistered([slot |-> slot, sample |-> sample]) = t
  <2> DEFINE s == [slot |-> slot, sample |-> sample]
  <2>1. s.slot = slot /\ DOMAIN s.slot = Slots
    BY DEF Slots
  <2> HIDE DEF fresh
  <2>2. [s EXCEPT !.slot = fresh] = t
    OBVIOUS
  <2> HIDE DEF s
  <2>3. set_entries_unregistered(s) = [s EXCEPT !.slot = fresh]
    BY <2>1, Zenon DEF set_entries_unregistered, fresh
  <2> HIDE DEF t
  <2> QED BY <2>2, <2>3 DEF s
<1>2. \A i \in Slots : slot[i] \in SlotRecs
  BY DEF DiskTypes, Slots
<1>3. \A i \in Slots : /\ fresh[i] \in SlotRecs /\ ~fresh[i].registered
                       /\ fresh[i].name = slot[i].name /\ fresh[i].used = slot[i].used
  BY <1>2 DEF SlotRecs
<1>4. DOMAIN fresh = Slots /\ fresh \in [Slots -> SlotRecs]
  BY <1>3
<1> HIDE DEF fresh
<1>5. t \in Tables(Slots) /\ t.slot = fresh /\ t.sample = sample
  BY <1>4 DEF Tables, DiskTypes
<1>6. OwnSlots(fresh)
  BY <1>3, <1>4 DEF OwnSlots, Slots
<1> HIDE DEF t
<1>7. RoundOk(t, {})
  BY <1>3, <1>5, <1>6 DEF RoundOk
<1> QED BY <1>1, <1>7

\* At its end all that is found has been filed, and slots that are not
\* registered are free.
LEMMA RoundIs ==
    ASSUME DiskTypes, OwnSlots(slot)
    PROVE  \E t : /\ RoundOk(t, Found)
                  /\ Round = [slot |-> [i \in Slots |->
                                  [t.slot[i] EXCEPT !.used = t.slot[i].used /\ t.slot[i].registered]],
                              sample |-> t.sample]
<1> DEFINE t0 == set_entries_unregistered([slot |-> slot, sample |-> sample])
           seq == LookedFor
           Done(j) == Found \cap {seq[k] : k \in 1..j}
<1>1. RoundOk(t0, {})
  BY RoundBegins
<1> HIDE DEF t0
<1>2. t0 \in Tables(Slots)
  BY <1>1 DEF RoundOk
<1>3. PICK h : /\ h[0] = t0
               /\ \A j \in 1..Len(seq) : h[j] = TakeIn(h[j - 1], seq[j])
               /\ FoldLeft(TakeIn, t0, seq) = h[Len(seq)]
  BY <1>2, RoundSteps
<1>4. seq \in Seq(STRING) /\ DOMAIN seq = 1..Len(seq) /\ Len(seq) \in Nat
      /\ \A k \in 1..Len(seq) : seq[k] \in STRING
  BY LookedForType
<1>5. Found \subseteq {seq[k] : k \in DOMAIN seq}
  BY DEF Found, Range
<1> HIDE DEF seq
<1> DEFINE Good == {j \in Nat : RoundOk(h[j], Done(j))}
<1>6. 0 \in Good
  <2>1. Done(0) = {}
    OBVIOUS
  <2> QED BY <1>1, <1>3, <2>1
<1>7. ASSUME NEW j \in 1..Len(seq), j - 1 \in Good PROVE j \in Good
  <2>1. 1..j = (1..(j - 1)) \cup {j}
    OBVIOUS
  <2>2. Done(j) = Done(j - 1) \cup ({seq[j]} \cap Found)
    BY <2>1
  <2>3. h[j] = TakeIn(h[j - 1], seq[j]) /\ seq[j] \in STRING /\ RoundOk(h[j - 1], Done(j - 1))
    BY <1>3, <1>4, <1>7
  <2> HIDE DEF Done
  <2> DEFINE before == h[j - 1]
             done == Done(j - 1)
             d == seq[j]
  <2>4. d \in STRING /\ RoundOk(before, done)
    BY <2>3
  <2> HIDE DEF before, done, d
  <2>5. RoundOk(TakeIn(before, d), done \cup ({d} \cap Found))
    BY <2>4, TakeOk
  <2>6. RoundOk(h[j], Done(j))
    BY <2>2, <2>3, <2>5 DEF before, done, d
  <2> QED BY <2>6
<1>8. RoundOk(h[Len(seq)], Found)
  <2>1. Done(Len(seq)) = Found
    BY <1>4, <1>5
  <2> HIDE DEF Done, Good
  <2>2. Len(seq) \in Good
    BY <1>4, <1>6, <1>7, UpTo
  <2> QED BY <2>1, <2>2 DEF Good
<1> DEFINE t == h[Len(seq)]
<1> HIDE DEF t
<1>9. RoundOk(t, Found) /\ Round = free_unregistered_entries(t)
  BY <1>3, <1>8 DEF Round, t0, t, seq
<1>10. t \in Tables(Slots) /\ t = [slot |-> t.slot, sample |-> t.sample] /\ DOMAIN t.slot = Slots
  BY <1>9 DEF RoundOk, Tables
<1> DEFINE freed == [i \in Slots |->
                        [t.slot[i] EXCEPT !.used = t.slot[i].used /\ t.slot[i].registered]]
<1>11. free_unregistered_entries(t) = [t EXCEPT !.slot = freed]
  BY <1>10, Zenon DEF free_unregistered_entries
<1> HIDE DEF freed
<1>12. [t EXCEPT !.slot = freed] = [slot |-> freed, sample |-> t.sample]
  BY <1>10 DEF Tables
<1> QED BY <1>9, <1>11, <1>12 DEF freed

-----------------------------------------------------------------------------
\* If every slot has a device, and there is none for d, there are not enough.
LEMMA TooMany ==
    ASSUME DiskTypes, NEW seq \in [Slots -> STRING], NEW all \in SUBSET Names, NEW d \in all,
           \A i \in Slots : seq[i] \in all \ {d},
           \A i, j \in Slots : seq[i] = seq[j] => i = j
    PROVE  Cardinality(all) > Len(slot)
<1>1. Slots = 1..Len(slot) /\ Len(slot) \in Nat
  BY SlotsAre
<1>2. IsFiniteSet(all)
  BY DeviceNames, FS_Subset
<1>3. IsFiniteSet(all \ {d}) /\ Cardinality(all \ {d}) = Cardinality(all) - 1
  BY <1>2, FS_RemoveElement
<1>4. seq \in [Slots -> all \ {d}]
  OBVIOUS
<1>5. seq \in Injection(Slots, all \ {d})
  BY <1>4 DEF Injection, IsInjective
<1>6. Cardinality(Slots) <= Cardinality(all \ {d})
  BY <1>3, <1>5, FS_Injection
<1>7. Cardinality(Slots) = Len(slot)
  <2> DEFINE top == Len(slot)
  <2>1. Slots = 1..top /\ top \in Nat
    BY <1>1
  <2> HIDE DEF top
  <2>2. Cardinality(1..top) = IF 1 > top THEN 0 ELSE top - 1 + 1
    BY <2>1, FS_Interval
  <2> QED BY <2>1, <2>2 DEF top
<1>8. Cardinality(all) \in Nat
  BY <1>2, FS_CardinalityType
<1> QED BY <1>1, <1>3, <1>6, <1>7, <1>8

\* A slot that has been filed shows what is due: the sectors since the sample
\* of the last round if there was one, or else since the device appeared.
LEMMA FiledShows ==
    ASSUME DiskTypes, OwnSlots(slot), Kept, dpc = "read", NEW t, RoundOk(t, Found),
           NEW i \in Slots, t.slot[i].registered, NEW d \in Found, t.slot[i].name = d, Due(d) >= 0
    PROVE  Sectors(t.sample[i][curr].sec, t.sample[i][1 - curr].sec) = Due(d)
<1>1. Filed(t, i, d)
  BY DEF RoundOk
<1>2. d \in Names /\ Present(d) /\ readable /\ ~(d \in seen \cap replugged)
      /\ Due(d) = IF d \in seen THEN moved[d] ELSE disk[d].sec
  <2>1. d \in Names
    BY SlotsAre
  <2>2. Present(d)
    BY Zenon DEF Found
  <2> QED BY <2>1, <2>2 DEF Due
<1>3. t.sample[i][curr].sec = disk[d].sec
  BY <1>1 DEF Filed, Now
<1>4. CASE slot[i].used /\ slot[i].name = d
  <2>1. t.sample[i][1 - curr] = sample[i][1 - curr]
    BY <1>1, <1>4 DEF Filed
  <2>2. d \in seen
    BY <1>4 DEF Kept
  <2>3. Newest = 1 - curr
    BY DEF Newest
  <2>4. disk[d].sec = (sample[i][1 - curr].sec + moved[d]) % (Mask + 1)
    BY <1>2, <1>4, <2>2, <2>3 DEF Kept
  <2>5. sample[i][1 - curr].sec \in 0..Mask /\ moved[d] \in 0..Mask
    <3>1. 1 - curr \in {0, 1} /\ sample[i] \in Pairs
      BY DEF DiskTypes
    <3>2. sample[i][1 - curr] \in Samples
      BY <3>1 DEF Pairs
    <3> QED BY <1>2, <3>2 DEF Samples, DiskTypes
  <2>6. Sectors(disk[d].sec, sample[i][1 - curr].sec) = moved[d]
    BY <2>4, <2>5, SectorsRight
  <2> QED BY <1>2, <1>3, <2>1, <2>2, <2>6
<1>5. CASE ~(slot[i].used /\ slot[i].name = d)
  <2>1. t.sample[i][1 - curr].sec = 0
    BY <1>1, <1>5 DEF Filed, NoSample
  <2>2. d \notin seen
    <3> SUFFICES ASSUME d \in seen PROVE FALSE
      OBVIOUS
    <3>1. PICK j \in Slots : slot[j].used /\ slot[j].name = d
      BY DEF Kept
    <3>2. t.slot[j].name = d
      BY <3>1 DEF RoundOk
    <3>3. OwnSlots(t.slot) /\ DOMAIN t.slot = Slots /\ d # NoDevice
      BY SlotsAre DEF RoundOk, Tables
    <3>4. j = i
      BY <3>2, <3>3 DEF OwnSlots
    <3> QED BY <1>5, <3>1, <3>4
  <2>3. disk[d].sec \in 0..Mask
    BY <1>2 DEF DiskTypes, Disks
  <2>4. (0 + disk[d].sec) % (Mask + 1) = disk[d].sec /\ 0 \in 0..Mask
    <3>1. Mask \in Nat /\ Mask + 1 \in Nat \ {0} /\ 0 + disk[d].sec = disk[d].sec
          /\ disk[d].sec \in 0..(Mask + 1 - 1)
      BY <2>3, DiskAssumption
    <3>2. disk[d].sec = (Mask + 1) * 0 + disk[d].sec
      BY <3>1
    <3> QED BY <3>1, <3>2, DivUnique
  <2>5. Sectors(disk[d].sec, 0) = disk[d].sec
    BY <2>3, <2>4, SectorsRight
  <2> QED BY <1>2, <1>3, <2>1, <2>2, <2>5
<1> QED BY <1>4, <1>5

\* A device of which something is due has got a slot.
LEMMA DueHasSlot ==
    ASSUME DiskTypes, OwnSlots(slot), Kept, NEW t, RoundOk(t, Found), NEW d \in Found, Due(d) >= 0
    PROVE  \E i \in Slots : t.slot[i].registered /\ t.slot[i].name = d
<1>1. SUFFICES ASSUME \A i \in Slots : t.slot[i].used /\ t.slot[i].name # d PROVE FALSE
  BY DEF RoundOk
<1>2. ~(Cardinality(seen \cup Found) > Len(slot))
  BY DEF Due
<1> DEFINE seq == [i \in Slots |-> t.slot[i].name]
           all == seen \cup Found
<1>3. all \in SUBSET Names /\ d \in all
  BY SlotsAre DEF DiskTypes
<1>4. OwnSlots(t.slot) /\ DOMAIN t.slot = Slots
  BY DEF RoundOk, Tables
<1>5. ASSUME NEW i \in Slots PROVE seq[i] \in all \ {d}
  <2>1. CASE t.slot[i].registered
    BY <1>1, <2>1 DEF RoundOk
  <2>2. CASE ~t.slot[i].registered
    BY <1>1, <2>2 DEF RoundOk, Kept
  <2> QED BY <2>1, <2>2
<1>6. ASSUME NEW i \in Slots, NEW j \in Slots, seq[i] = seq[j] PROVE i = j
  <2>1. t.slot[i].name \in Names /\ t.slot[i].name # NoDevice
    BY <1>1, <1>4, DeviceNames DEF OwnSlots
  <2> QED BY <1>4, <1>6, <2>1 DEF OwnSlots
<1>7. seq \in [Slots -> STRING]
  BY <1>3, <1>5, DeviceNames
<1> HIDE DEF seq, all
<1>8. Cardinality(all) > Len(slot)
  BY <1>3, <1>5, <1>6, <1>7, TooMany
<1> QED BY <1>2, <1>8 DEF all

-----------------------------------------------------------------------------
\* A round that can be read.
LEMMA ReadDisk == ASSUME DiskInv, Read PROVE DiskInv'
<1>0. DiskTypes /\ OwnSlots(slot) /\ Kept
  BY DEF DiskInv
<1>1. PICK t : /\ RoundOk(t, Found)
               /\ Round = [slot |-> [i \in Slots |->
                               [t.slot[i] EXCEPT !.used = t.slot[i].used /\ t.slot[i].registered]],
                           sample |-> t.sample]
  BY <1>0, RoundIs
<1>2. slot' = Round.slot /\ sample' = Round.sample
  BY DEF Read
<1>3. t \in Tables(Slots) /\ OwnSlots(t.slot) /\ DOMAIN t.slot = Slots
      /\ \A i \in Slots : t.slot[i] \in SlotRecs
  BY <1>1 DEF RoundOk, Tables
<1>4. slot' = [i \in Slots |-> [t.slot[i] EXCEPT !.used = t.slot[i].used /\ t.slot[i].registered]]
      /\ sample' = t.sample
  BY <1>1, <1>2
<1>5. Slots' = Slots
  BY <1>4 DEF Slots
<1>6. \A i \in Slots : /\ slot'[i] \in SlotRecs /\ slot'[i].name = t.slot[i].name
                       /\ slot'[i].used = t.slot[i].registered
  <2> SUFFICES ASSUME NEW i \in Slots
               PROVE  /\ slot'[i] \in SlotRecs /\ slot'[i].name = t.slot[i].name
                      /\ slot'[i].used = t.slot[i].registered
    OBVIOUS
  <2>1. slot'[i] = [t.slot[i] EXCEPT !.used = t.slot[i].used /\ t.slot[i].registered]
    BY <1>4
  <2>2. (t.slot[i].used /\ t.slot[i].registered) = t.slot[i].registered
    <3>1. t.slot[i].registered => t.slot[i].used
      BY <1>1 DEF RoundOk
    <3>2. t.slot[i].used \in BOOLEAN /\ t.slot[i].registered \in BOOLEAN
      BY <1>3 DEF SlotRecs
    <3> QED BY <3>1, <3>2
  <2>3. t.slot[i] \in SlotRecs /\ t.slot[i].registered \in BOOLEAN
    BY <1>3 DEF SlotRecs
  <2> DEFINE r == t.slot[i]
             b == r.registered
  <2>4. slot'[i] = [r EXCEPT !.used = b] /\ r \in SlotRecs /\ b \in BOOLEAN
    BY <2>1, <2>2, <2>3
  <2> HIDE DEF r, b
  <2>5. slot'[i] \in SlotRecs /\ slot'[i].name = r.name /\ slot'[i].used = b
    BY <2>4 DEF SlotRecs
  <2> QED BY <2>5 DEF r, b
<1>7. /\ dpc = "read" /\ dpc' = "show" /\ readable' = TRUE /\ replugged' = {}
      /\ disk' = disk /\ opts' = opts /\ source' = source /\ curr' = curr
      /\ seen' = Found \cap {slot'[i].name : i \in Slots}
      /\ moved' = [d \in Names |-> 0] /\ due' = [d \in Names |-> Due(d)]
  BY DEF Read
<1>8. \A i \in Slots : t.slot[i].registered =>
         /\ t.slot[i].name \in Found /\ t.slot[i].name \in seen'
         /\ Filed(t, i, t.slot[i].name)
  BY <1>1, <1>5, <1>6, <1>7 DEF RoundOk
<1>9. DiskTypes'
  <2>1. slot' \in Seq(SlotRecs)
    <3>1. Slots = 1..Len(slot) /\ Len(slot) \in Nat
      BY <1>0, SlotsAre
    <3>2. slot' \in [1..Len(slot) -> SlotRecs]
      BY <1>4, <1>6, <3>1
    <3> QED BY <3>1, <3>2
  <2>2. sample' \in [Slots' -> Pairs]
    BY <1>3, <1>4, <1>5 DEF Tables
  <2>3. seen' \subseteq Names
    BY <1>0, <1>7, SlotsAre
  <2>4. moved' \in [Names -> 0..Mask]
    BY <1>7, DiskAssumption
  <2> QED BY <1>0, <1>7, <2>1, <2>2, <2>3, <2>4 DEF DiskTypes
<1>10. OwnSlots(slot')
  <2>1. DOMAIN slot' = Slots
    BY <1>5 DEF Slots
  <2>2. \A i \in Slots : slot'[i].used => slot'[i].name \in Names
    BY <1>0, <1>6, <1>8, SlotsAre
  <2>3. \A i, j \in Slots : slot'[i].name # NoDevice /\ slot'[i].name = slot'[j].name => i = j
    BY <1>3, <1>6 DEF OwnSlots
  <2> QED BY <2>1, <2>2, <2>3 DEF OwnSlots
<1>11. Kept'
  <2>1. ASSUME NEW d \in seen' PROVE \E i \in Slots' : slot'[i].used /\ slot'[i].name = d
    <3>1. d \in Found /\ \E i \in Slots : slot'[i].name = d
      BY <1>5, <1>7, <2>1
    <3>2. \E i \in Slots : t.slot[i].name = d
      BY <1>6, <3>1
    <3>3. \E i \in Slots : t.slot[i].registered /\ t.slot[i].name = d
      BY <1>1, <3>1, <3>2 DEF RoundOk
    <3> QED BY <1>5, <1>6, <3>3
  <2>2. ASSUME NEW i \in Slots', slot'[i].used
        PROVE  /\ slot'[i].name \in seen'
               /\ disk'[slot'[i].name].sec
                    = (sample'[i][Newest'].sec + moved'[slot'[i].name]) % (Mask + 1)
    <3> DEFINE d == slot'[i].name
    <3>1. i \in Slots /\ t.slot[i].registered /\ d = t.slot[i].name /\ d \in seen' /\ d \in Names
      BY <1>0, <1>5, <1>6, <1>8, <2>2, SlotsAre
    <3>2. Newest' = curr
      BY <1>7 DEF Newest
    <3>3. sample'[i][curr].sec = disk[d].sec
      <4>1. Filed(t, i, d)
        BY <1>8, <3>1
      <4> HIDE DEF d
      <4> QED BY <1>4, <4>1 DEF Filed, Now
    <3>4. moved'[d] = 0
      BY <1>7, <3>1
    <3>5. disk[d].sec \in 0..Mask
      BY <1>0, <3>1 DEF DiskTypes, Disks
    <3> DEFINE s == disk[d].sec
    <3>6. (s + 0) % (Mask + 1) = s
      <4> DEFINE all == Mask + 1
      <4>1. all \in Nat \ {0} /\ s \in 0..(all - 1) /\ s \in Int /\ s = all * 0 + s /\ s + 0 = s
        BY <3>5, DiskAssumption
      <4> HIDE DEF s, all
      <4>2. s % all = s
        BY <4>1, DivUnique
      <4> QED BY <4>1, <4>2 DEF all
    <3>7. sample'[i][Newest'].sec + moved'[d] = s + 0
      BY <3>2, <3>3, <3>4
    <3> QED BY <1>7, <3>1, <3>6, <3>7
  <2> QED BY <2>1, <2>2 DEF Kept
<1>12. SamplesRight'
  <2>1. {slot'[i].name : i \in Rows'} \subseteq seen'
    BY <1>5, <1>6, <1>8 DEF Rows
  <2>2. ASSUME NEW i \in Rows', NEW j \in Rows', slot'[i].name = slot'[j].name PROVE i = j
    <3>1. i \in DOMAIN slot' /\ j \in DOMAIN slot' /\ slot'[i].used
      BY DEF Rows, Slots
    <3>2. slot'[i].name \in Names /\ slot'[i].name # NoDevice
      BY <1>10, <3>1, DeviceNames DEF OwnSlots
    <3> QED BY <1>10, <2>2, <3>1, <3>2 DEF OwnSlots
  <2>3. ASSUME NEW d \in Names, due'[d] >= 0, Listed(d)'
        PROVE  \E i \in Rows' : slot'[i].name = d /\ Shown(i)' = due'[d]
    <3>1. due'[d] = Due(d) /\ Due(d) >= 0
      BY <1>7, <2>3
    <3>2. d \in Found /\ (opts.unfiltered \/ disk[d].ios)
      <4>1. Due(d) # -1
        BY <3>1
      <4> QED BY <4>1 DEF Due
    <3>3. PICK i \in Slots : t.slot[i].registered /\ t.slot[i].name = d
      BY <1>0, <1>1, <3>1, <3>2, DueHasSlot
    <3>4. Sectors(t.sample[i][curr].sec, t.sample[i][1 - curr].sec) = Due(d)
      BY <1>0, <1>1, <1>7, <3>1, <3>2, <3>3, FiledShows
    <3>5. Shown(i)' = Due(d)
      BY <1>4, <1>7, <3>4 DEF Shown, Sectors
    <3>6. sample'[i][curr'].ios = disk[d].ios
      <4>1. Filed(t, i, d)
        BY <1>8, <3>3
      <4> QED BY <1>4, <1>7, <4>1 DEF Filed, Now
    <3>7. i \in Rows'
      BY <1>5, <1>6, <1>7, <2>3, <3>2, <3>3, <3>6 DEF Rows, Listed
    <3> QED BY <1>6, <3>1, <3>3, <3>5, <3>7
  <2> QED BY <2>1, <2>2, <2>3 DEF SamplesRight
<1>13. OwnSlots(slot)'
  BY <1>10
<1> QED BY <1>9, <1>11, <1>12, <1>13 DEF DiskInv

\* A round that cannot be read: the slots keep their devices.
LEMMA ReadFailsDisk == ASSUME DiskInv, ReadFails PROVE DiskInv'
<1>0. DiskTypes /\ OwnSlots(slot) /\ Kept
  BY DEF DiskInv
<1>1. slot' = [i \in Slots |-> [slot[i] EXCEPT !.registered = FALSE]]
  <2> DEFINE s == [slot |-> slot]
             fresh == [i \in Slots |-> [slot[i] EXCEPT !.registered = FALSE]]
  <2>1. s.slot = slot /\ DOMAIN s.slot = Slots
    BY DEF Slots
  <2>2. [s EXCEPT !.slot = fresh].slot = fresh
    <3> HIDE DEF fresh
    <3> QED OBVIOUS
  <2>3. slot' = set_entries_unregistered(s).slot
    BY DEF ReadFails
  <2> HIDE DEF s
  <2>4. set_entries_unregistered(s) = [s EXCEPT !.slot = fresh]
    BY <2>1, Zenon DEF set_entries_unregistered, fresh
  <2> HIDE DEF fresh
  <2> QED BY <2>2, <2>3, <2>4 DEF fresh
<1>2. /\ dpc' = "show" /\ readable' = FALSE /\ replugged' = {}
      /\ disk' = disk /\ opts' = opts /\ source' = source /\ curr' = curr /\ sample' = sample
      /\ seen' = seen /\ moved' = [d \in Names |-> 0] /\ due' = [d \in Names |-> -1]
  BY DEF ReadFails
<1>3. Slots' = Slots /\ \A i \in Slots : slot[i] \in SlotRecs
  BY <1>0, <1>1 DEF Slots, DiskTypes
<1>4. \A i \in Slots : /\ slot'[i] \in SlotRecs /\ slot'[i].name = slot[i].name
                       /\ slot'[i].used = slot[i].used
  BY <1>1, <1>3 DEF SlotRecs
<1>5. DiskTypes'
  <2>1. slot' \in Seq(SlotRecs)
    <3>1. Slots = 1..Len(slot) /\ Len(slot) \in Nat
      BY <1>0, SlotsAre
    <3>2. slot' \in [1..Len(slot) -> SlotRecs]
      BY <1>1, <1>4, <3>1
    <3> QED BY <3>1, <3>2
  <2>2. moved' \in [Names -> 0..Mask]
    BY <1>2, DiskAssumption
  <2> QED BY <1>0, <1>2, <1>3, <2>1, <2>2 DEF DiskTypes
<1>6. OwnSlots(slot')
  <2>1. DOMAIN slot' = Slots /\ DOMAIN slot = Slots
    BY <1>3 DEF Slots
  <2> QED BY <1>0, <1>4, <2>1 DEF OwnSlots
<1>7. Kept'
  BY <1>0, <1>2, <1>3, <1>4 DEF Kept
<1>8. SamplesRight'
  <2>1. ASSUME NEW i \in Rows', NEW j \in Rows', slot'[i].name = slot'[j].name PROVE i = j
    <3>1. i \in DOMAIN slot' /\ j \in DOMAIN slot' /\ slot'[i].used
      BY DEF Rows, Slots
    <3>2. slot'[i].name \in Names /\ slot'[i].name # NoDevice
      BY <1>6, <3>1, DeviceNames DEF OwnSlots
    <3> QED BY <1>6, <2>1, <3>1, <3>2 DEF OwnSlots
  <2>2. \A d \in Names : ~(due'[d] >= 0)
    BY <1>2
  <2> QED BY <1>2, <2>1, <2>2 DEF SamplesRight
<1>9. OwnSlots(slot)'
  BY <1>6
<1> QED BY <1>5, <1>7, <1>8, <1>9 DEF DiskInv

\* A report, and the alarm: the samples change roles only between reports.
LEMMA ShowDisk == ASSUME DiskInv, Show \/ Alarm PROVE DiskInv'
<1>0. DiskTypes /\ OwnSlots(slot) /\ Kept /\ SamplesRight
  BY DEF DiskInv
<1>1. /\ disk' = disk /\ opts' = opts /\ source' = source /\ slot' = slot /\ sample' = sample
      /\ seen' = seen /\ moved' = moved /\ due' = due /\ readable' = readable
      /\ replugged' = replugged /\ Slots' = Slots
  BY DEF Show, Alarm, ghosts, Slots
<1>2. curr' \in {0, 1} /\ (dpc' = "off" => dpc = "off")
  BY <1>0 DEF Show, Alarm, DiskTypes
<1>3. Newest' = Newest
  <2>1. CASE Show
    <3>1. 1 - (1 - curr) = curr
      BY <1>0 DEF DiskTypes
    <3>2. dpc = "show" /\ \/ dpc' = "pause" /\ curr' = 1 - curr
                          \/ dpc' = "exit" /\ curr' = curr
      BY <2>1 DEF Show
    <3> QED BY <3>1, <3>2 DEF Newest
  <2>2. CASE Alarm
    <3>1. curr' = curr /\ dpc' = IF dpc = "pause" THEN "read" ELSE dpc
      BY <2>2 DEF Alarm
    <3> QED BY <3>1 DEF Newest
  <2> QED BY <2>1, <2>2
<1>4. DiskTypes'
  BY <1>0, <1>1, <1>2 DEF DiskTypes
<1>5. OwnSlots(slot)' /\ Kept'
  BY <1>0, <1>1, <1>3 DEF OwnSlots, Kept, Present
<1>6. SamplesRight'
  <2> SUFFICES ASSUME dpc' = "show" PROVE SamplesRight'
    BY DEF SamplesRight
  <2>1. dpc = "show" /\ curr' = curr
    BY DEF Show, Alarm
  <2>2. \A d : Listed(d)' = Listed(d)
    BY <1>1 DEF Listed
  <2>3. Rows' = Rows
    BY <1>1, <2>1, <2>2 DEF Rows
  <2>4. \A i \in Rows : Shown(i)' = Shown(i)
    BY <1>1, <2>1 DEF Shown, Sectors
  <2> QED BY <1>0, <1>1, <2>1, <2>2, <2>3, <2>4 DEF SamplesRight
<1> QED BY <1>4, <1>5, <1>6 DEF DiskInv

\* A counter that goes round goes on from where it was.
LEMMA GoesRound ==
    ASSUME NEW k \in Nat, NEW m \in Nat \ {0}
    PROVE  ((k % m) + 1) % m = (k + 1) % m
<1> DEFINE q == k \div m   r == k % m
<1>1. q \in Int /\ r \in 0..(m - 1) /\ k = m * q + r
  <2>1. k \in Int
    OBVIOUS
  <2> QED BY <2>1, DivMod
<1> HIDE DEF q, r
<1>2. CASE r + 1 < m
  <2>1. r + 1 \in 0..(m - 1) /\ r + 1 \in Int /\ k + 1 \in Int
        /\ k + 1 = m * q + (r + 1) /\ r + 1 = m * 0 + (r + 1)
    BY <1>1, <1>2
  <2>2. r + 1 = (k + 1) % m
    BY <1>1, <2>1, DivUnique
  <2>3. r + 1 = (r + 1) % m
    BY <2>1, DivUnique
  <2> QED BY <2>2, <2>3 DEF r
<1>3. CASE ~(r + 1 < m)
  <2>1. r + 1 = m
    BY <1>1, <1>3
  <2>2. 0 \in 0..(m - 1) /\ k + 1 = m * (q + 1) + 0 /\ q + 1 \in Int /\ r + 1 = m * 1 + 0
        /\ r + 1 \in Int
    <3>1. m * (q + 1) = m * q + m
      BY <1>1
    <3> QED BY <1>1, <2>1, <3>1
  <2>3. 0 = (k + 1) % m /\ 0 = (r + 1) % m
    BY <1>1, <2>2, DivUnique
  <2> QED BY <2>3 DEF r
<1> QED BY <1>2, <1>3

\* What the kernel does to a device leaves the reports as they are.
LEMMA KernelReports ==
    ASSUME SamplesRight, UNCHANGED DiskUnchanged PROVE SamplesRight'
<1>1. \A d : Listed(d)' = Listed(d)
  BY DEF Listed, DiskUnchanged
<1>2. Rows' = Rows
  BY <1>1 DEF Rows, Slots, DiskUnchanged
<1>3. \A i \in Rows : Shown(i)' = Shown(i)
  BY DEF Shown, Sectors, DiskUnchanged
<1> QED BY <1>1, <1>2, <1>3 DEF SamplesRight, DiskUnchanged

\* I/O counts in the counter of the device and in the sectors moved.
LEMMA IoDisk == ASSUME DiskInv, NEW d \in Names, Io(d) PROVE DiskInv'
<1>0. DiskTypes /\ OwnSlots(slot) /\ Kept /\ SamplesRight
  BY DEF DiskInv
<1>1. UNCHANGED DiskUnchanged /\ replugged' = replugged /\ Slots' = Slots /\ Newest' = Newest
  BY DEF Io, DiskUnchanged, Slots, Newest
<1>2. /\ disk' = [disk EXCEPT ![d].sec = (disk[d].sec + 1) % (Mask + 1), ![d].ios = TRUE]
      /\ moved' = [moved EXCEPT ![d] = moved[d] + 1] /\ moved[d] < Mask
  BY DEF Io
<1>3. disk[d] \in Disks /\ disk[d].sec \in Nat /\ moved[d] \in 0..Mask /\ Mask \in Nat
  BY <1>0, DiskAssumption DEF DiskTypes, Disks
<1>4. (disk[d].sec + 1) % (Mask + 1) \in 0..Mask
  <2> DEFINE s == disk[d].sec + 1
             m == Mask + 1
  <2>1. s \in Int /\ m \in Nat \ {0} /\ 0..(m - 1) = 0..Mask
    BY <1>3
  <2> HIDE DEF s, m
  <2> QED BY <2>1, DivMod DEF s, m
<1>5. /\ disk'[d].sec = (disk[d].sec + 1) % (Mask + 1) /\ disk'[d].here = disk[d].here
      /\ moved'[d] = moved[d] + 1 /\ disk'[d] \in Disks
      /\ \A e \in Names \ {d} : disk'[e] = disk[e] /\ moved'[e] = moved[e]
  <2>1. disk \in [Names -> Disks] /\ moved \in [Names -> 0..Mask]
    BY <1>0 DEF DiskTypes
  <2> QED BY <1>2, <1>4, <2>1 DEF Disks
<1>6. DiskTypes'
  <2>1. DOMAIN disk' = Names /\ DOMAIN moved' = Names
    BY <1>0, <1>2 DEF DiskTypes
  <2>2. disk' \in [Names -> Disks]
    <3>1. \A e \in Names : disk'[e] \in Disks
      BY <1>0, <1>5 DEF DiskTypes
    <3> QED BY <1>0, <1>2, <2>1, <3>1 DEF DiskTypes
  <2>3. moved' \in [Names -> 0..Mask]
    BY <1>0, <1>2, <1>3 DEF DiskTypes
  <2> QED BY <1>0, <1>1, <2>2, <2>3 DEF DiskTypes, DiskUnchanged, Slots
<1>7. Kept'
  <2>1. ASSUME NEW i \in Slots, slot[i].used, readable, disk'[slot[i].name].here,
               slot[i].name \notin replugged
        PROVE  disk'[slot[i].name].sec
                 = (sample[i][Newest].sec + moved'[slot[i].name]) % (Mask + 1)
    <3>1. slot[i].name \in Names
      BY <1>0, <2>1 DEF OwnSlots, Slots
    <3>2. Present(slot[i].name)
      BY <1>5, <2>1, <3>1 DEF Present
    <3>3. disk[slot[i].name].sec = (sample[i][Newest].sec + moved[slot[i].name]) % (Mask + 1)
      BY <1>0, <2>1, <3>2 DEF Kept
    <3>4. CASE slot[i].name # d
      BY <1>5, <3>1, <3>3, <3>4
    <3>5. CASE slot[i].name = d
      <4> DEFINE s == sample[i][Newest].sec
                 k == moved[d]
      <4>1. s \in Nat /\ k \in Nat /\ Mask + 1 \in Nat \ {0}
        <5>1. sample[i] \in Pairs /\ Newest \in {0, 1}
          BY <1>0 DEF DiskTypes, Newest
        <5>2. sample[i][Newest] \in Samples
          BY <5>1 DEF Pairs
        <5> QED BY <1>3, <5>2 DEF Samples
      <4>2. disk[d].sec = (s + k) % (Mask + 1)
        BY <3>3, <3>5
      <4> HIDE DEF s, k
      <4>3. (((s + k) % (Mask + 1)) + 1) % (Mask + 1) = (s + k + 1) % (Mask + 1)
        <5> DEFINE p == s + k
                   m == Mask + 1
        <5>1. p \in Nat /\ m \in Nat \ {0}
          BY <4>1
        <5> HIDE DEF p, m
        <5>2. ((p % m) + 1) % m = (p + 1) % m
          BY <5>1, GoesRound
        <5> QED BY <5>2 DEF p, m
      <4>4. s + k + 1 = s + (k + 1)
        BY <4>1
      <4> QED BY <1>5, <3>5, <4>2, <4>3, <4>4 DEF s, k
    <3> QED BY <3>4, <3>5
  <2> QED BY <1>0, <1>1, <2>1 DEF Kept, DiskUnchanged, Present
<1>8. OwnSlots(slot)'
  BY <1>0, <1>1 DEF OwnSlots, DiskUnchanged
<1> QED BY <1>0, <1>1, <1>6, <1>7, <1>8, KernelReports DEF DiskInv

\* Of a device that is gone, or has come back, nothing is known.
LEMMA PlugDisk == ASSUME DiskInv, NEW d \in Names, Plug(d) \/ Unplug(d) PROVE DiskInv'
<1>0. DiskTypes /\ OwnSlots(slot) /\ Kept /\ SamplesRight
  BY DEF DiskInv
<1>1. UNCHANGED DiskUnchanged /\ Slots' = Slots /\ Newest' = Newest
  BY DEF Plug, Unplug, DiskUnchanged, Slots, Newest
<1>2. disk \in [Names -> Disks] /\ moved \in [Names -> 0..Mask]
  BY <1>0 DEF DiskTypes
<1>3. /\ disk' \in [Names -> Disks] /\ moved' \in [Names -> 0..Mask]
      /\ \A e \in Names \ {d} : disk'[e] = disk[e] /\ moved'[e] = moved[e]
      /\ \A e : e \notin replugged' => e \notin replugged
      /\ d \in replugged' \/ ~disk'[d].here
  <2>1. CASE Plug(d)
    <3>1. disk' = [disk EXCEPT ![d].here = TRUE] /\ moved' = moved
          /\ replugged' = replugged \cup {d}
      BY <2>1 DEF Plug
    <3> QED BY <1>2, <3>1 DEF Disks
  <2>2. CASE Unplug(d)
    <3>1. disk' = [disk EXCEPT ![d] = Gone] /\ moved' = [moved EXCEPT ![d] = 0]
          /\ replugged' = replugged
      BY <2>2 DEF Unplug
    <3>2. 0 \in 0..Mask /\ Gone \in Disks /\ ~Gone.here
      BY DiskAssumption DEF Gone, Disks
    <3> QED BY <1>2, <3>1, <3>2
  <2> QED BY <2>1, <2>2
<1>4. DiskTypes'
  BY <1>0, <1>1, <1>3 DEF DiskTypes, DiskUnchanged, Slots
<1>5. Kept'
  <2>1. ASSUME NEW i \in Slots, slot[i].used, readable, disk'[slot[i].name].here,
               slot[i].name \notin replugged'
        PROVE  disk'[slot[i].name].sec
                 = (sample[i][Newest].sec + moved'[slot[i].name]) % (Mask + 1)
    <3>1. slot[i].name \in Names
      BY <1>0, <2>1 DEF OwnSlots, Slots
    <3>2. slot[i].name # d
      BY <1>3, <2>1 DEF Present
    <3>3. Present(slot[i].name) /\ slot[i].name \notin replugged
      BY <1>3, <2>1, <3>1, <3>2 DEF Present
    <3> QED BY <1>0, <1>3, <2>1, <3>1, <3>2, <3>3 DEF Kept
  <2> QED BY <1>0, <1>1, <2>1 DEF Kept, DiskUnchanged, Present
<1>6. OwnSlots(slot)'
  BY <1>0, <1>1 DEF OwnSlots, DiskUnchanged
<1> QED BY <1>0, <1>1, <1>4, <1>5, <1>6, KernelReports DEF DiskInv

-----------------------------------------------------------------------------
\* What the arguments leave in the options, one after another.
OptionRecs == [dlist : Seq(STRING), unfiltered : BOOLEAN, interval : Nat, count : Int,
               it : -1..1, bad : BOOLEAN]

LEMMA Appended == ASSUME NEW S, NEW seq \in Seq(S), NEW a \in S PROVE Append(seq, a) \in Seq(S)
  OBVIOUS

LEMMA ArgumentType ==
    ASSUME NEW p \in OptionRecs, NEW a \in STRING PROVE Argument(p, a) \in OptionRecs
<1>1. p.dlist \in Seq(STRING)
  BY DEF OptionRecs
<1>2. CASE p.bad
  BY <1>2 DEF Argument
<1>3. CASE ~p.bad /\ ~IsNumber(a)
  <2> DEFINE names == IF a = "ALL" THEN p.dlist ELSE update_dev_list(p.dlist, a)
  <2>1. names \in Seq(STRING)
    <3>1. Append(p.dlist, a) \in Seq(STRING)
      BY <1>1, Appended
    <3> QED BY <1>1, <3>1 DEF update_dev_list
  <2> HIDE DEF names
  <2>2. Argument(p, a) = [p EXCEPT !.unfiltered = TRUE, !.dlist = names]
    BY <1>3, Zenon DEF Argument, names
  <2> QED BY <2>1, <2>2 DEF OptionRecs
<1>4. CASE ~p.bad /\ IsNumber(a)
  <2> DEFINE v == Numerals[a]
  <2>1. v \in Nat
    BY <1>4, ArgumentsAssumption DEF IsNumber
  <2> HIDE DEF v
  <2>2. \/ Argument(p, a) = [p EXCEPT !.interval = v, !.count = -1, !.it = 1]
        \/ Argument(p, a) = [p EXCEPT !.count = v, !.it = -1]
        \/ Argument(p, a) = [p EXCEPT !.bad = TRUE]
    <3>1. CASE p.it = 0
      BY <1>4, <3>1, Zenon DEF Argument, v
    <3>2. CASE p.it # 0
      BY <1>4, <3>2, Zenon DEF Argument, v
    <3> QED BY <3>1, <3>2
  <2> DEFINE m == -1
             Its == -1..1
             Recs == [dlist : Seq(STRING), unfiltered : BOOLEAN, interval : Nat, count : Int,
                      it : Its, bad : BOOLEAN]
  <2>3. m \in Int /\ v \in Int /\ m \in Its /\ 1 \in Its
    BY <2>1
  <2> HIDE DEF m, Its
  <2>4. OptionRecs = Recs
    BY DEF OptionRecs, Its
  <2>5. [p EXCEPT !.interval = v, !.count = m, !.it = 1] \in Recs
    BY <2>1, <2>3, <2>4
  <2>6. [p EXCEPT !.count = v, !.it = m] \in Recs
    BY <2>1, <2>3, <2>4
  <2>7. [p EXCEPT !.bad = TRUE] \in OptionRecs
    BY DEF OptionRecs
  <2> QED BY <2>2, <2>4, <2>5, <2>6, <2>7 DEF m
<1> QED BY <1>2, <1>3, <1>4

LEMMA OptionsType ==
    ASSUME NEW args \in Seq(STRING)
    PROVE  "dlist" \in DOMAIN DiskOptions(args) /\ DiskOptions(args).dlist \in Seq(STRING)
<1> DEFINE V == OptionRecs
           op == [p \in V \X STRING |-> Argument(p[1], p[2])]
           D == DOMAIN args
           Step1(f, s) == IF s = {} THEN NoOpts ELSE Argument(f[s \ {Max(s)}], args[Max(s)])
           iter == CHOOSE f : f = [s \in SUBSET D |-> Step1(f, s)]
<1>0. D = 1..Len(args) /\ Len(args) \in Nat /\ \A k \in D : args[k] \in STRING
  OBVIOUS
<1>1. FoldLeft(Argument, NoOpts, args) = iter[D]
  BY DEF FoldLeft, MapThenFoldSet
<1>2. NoOpts \in V
  BY DEF NoOpts, OptionRecs
<1>3. op \in [V \X STRING -> V]
  <2>1. ASSUME NEW p \in V \X STRING PROVE Argument(p[1], p[2]) \in V
    <3>1. p[1] \in V /\ p[2] \in STRING
      OBVIOUS
    <3> QED BY <3>1, ArgumentType
  <2> QED BY <2>1
<1>4. \A p \in V, a \in STRING : op[<<p, a>>] = Argument(p, a)
  OBVIOUS
<1> HIDE DEF op, V
<1>5. PICK g \in [SUBSET D -> V] : Folds(g, op, NoOpts, args)
  BY <1>2, <1>3, FoldsExists
<1>6. ASSUME NEW s \in SUBSET D PROVE g[s] = Step1(g, s)
  <2>1. CASE s = {}
    BY <1>5, <2>1 DEF Folds
  <2>2. CASE s # {}
    <3>1. Max(s) \in D /\ s \ {Max(s)} \in SUBSET D
      BY <1>0, <2>2, MaxOfFirst
    <3>2. g[s \ {Max(s)}] \in V /\ args[Max(s)] \in STRING
      BY <1>0, <1>5, <3>1
    <3>3. g[s] = op[<<g[s \ {Max(s)}], args[Max(s)]>>]
      BY <1>5, <2>2 DEF Folds
    <3> QED BY <1>4, <2>2, <3>2, <3>3
  <2> QED BY <2>1, <2>2
<1>7. g = [s \in SUBSET D |-> Step1(g, s)]
  <2>1. g = [s \in SUBSET D |-> g[s]]
    BY <1>5
  <2> QED BY <1>6, <2>1, Zenon
<1>8. iter = [s \in SUBSET D |-> Step1(iter, s)]
  BY <1>7, Zenon
<1> HIDE DEF iter
<1>9. \A s \in SUBSET D : iter[s] = Step1(iter, s)
  BY <1>8, Zenon
<1> DEFINE Good == {j \in Nat : iter[1..j] \in V}
<1>10. 0 \in Good
  <2>1. 1..0 = {} /\ {} \in SUBSET D
    OBVIOUS
  <2> QED BY <1>2, <1>9, <2>1
<1>11. ASSUME NEW j \in 1..Len(args), j - 1 \in Good PROVE j \in Good
  <2>1. 1..j \in SUBSET D /\ 1..j # {} /\ Max(1..j) = j /\ (1..j) \ {j} = 1..(j - 1)
        /\ args[j] \in STRING /\ j \in Nat
    BY <1>0, MaxOfFirst
  <2>2. iter[1..j] = Argument(iter[1..(j - 1)], args[j])
    BY <1>9, <2>1
  <2>3. iter[1..(j - 1)] \in V
    BY <1>11
  <2>4. Argument(iter[1..(j - 1)], args[j]) \in V
    BY <2>1, <2>3, ArgumentType DEF V
  <2> QED BY <2>1, <2>2, <2>4
<1> HIDE DEF Good
<1>12. Len(args) \in Good
  BY <1>0, <1>10, <1>11, UpTo
<1>13. FoldLeft(Argument, NoOpts, args) \in V
  BY <1>0, <1>1, <1>12 DEF Good
<1> DEFINE p == FoldLeft(Argument, NoOpts, args)
<1> HIDE DEF p
<1>14. p \in OptionRecs
  BY <1>13 DEF p, V
<1>15. DiskOptions(args) = IF p.interval = 0 THEN [p EXCEPT !.count = 1] ELSE p
  BY Zenon DEF DiskOptions, p
<1> QED BY <1>14, <1>15 DEF OptionRecs

-----------------------------------------------------------------------------
\* The slots of a report that begins are empty.
LEMMA StartDisk ==
    ASSUME DiskInv, NEW args \in Seq(STRING), DiskStart(args) PROVE DiskInv'
<1>0. DiskTypes /\ OwnSlots(slot) /\ Kept
  BY DEF DiskInv
<1>1. /\ dpc = "off" /\ dpc' \in {"exit", "read"} /\ opts' = DiskOptions(args)
      /\ curr' = curr /\ seen' = {} /\ moved' = moved /\ readable' = readable
      /\ replugged' = replugged
  BY <1>0, Zenon DEF DiskStart, ghosts, DiskTypes
<1>2. "dlist" \in DOMAIN opts' /\ opts'.dlist \in Seq(STRING)
  BY <1>1, OptionsType
<1>3. SamplesRight'
  BY <1>1 DEF SamplesRight
<1>4. CASE disk' = disk /\ slot' = slot /\ sample' = sample
  <2>1. \A i \in Slots : ~slot[i].used
    BY <1>0, <1>1 DEF Kept, DiskTypes
  <2>2. DiskTypes'
    BY <1>0, <1>1, <1>2, <1>4 DEF DiskTypes, Slots
  <2>3. OwnSlots(slot)'
    BY <1>0, <1>4 DEF OwnSlots
  <2>4. Kept'
    BY <1>1, <1>4, <2>1 DEF Kept, Slots
  <2> QED BY <1>3, <2>2, <2>3, <2>4 DEF DiskInv
<1>5. CASE ~opts'.bad
  <2> DEFINE start == {d \in Names : disk'[d].here /\ (d \in Whole \/ source' = "diskstats")}
             top == Cardinality(start) + PREALLOC
  <2>1. /\ disk' \in [Names -> {Gone, InUse}]
        /\ slot' = [i \in 1..top |-> EmptySlot]
        /\ sample' = [i \in 1..top |-> [k \in {0, 1} |-> NoSample]]
    BY <1>5 DEF DiskStart
  <2>2. top \in Nat
    <3>1. IsFiniteSet(start)
      BY DeviceNames, FS_Subset
    <3>2. Cardinality(start) \in Nat
      BY <3>1, FS_CardinalityType
    <3> QED BY <3>2, DiskAssumption
  <2> HIDE DEF top
  <2>3. EmptySlot \in SlotRecs /\ EmptySlot.name = NoDevice /\ EmptySlot.used = FALSE
    BY DEF EmptySlot, SlotRecs
  <2>4. [k \in {0, 1} |-> NoSample] \in Pairs
    BY DiskAssumption DEF NoSample, Samples, Pairs
  <2>5. \A d \in {Gone, InUse} : d \in Disks
    <3>1. 0 \in 0..Mask /\ 1 \in 0..Mask
      BY DiskAssumption
    <3>2. Gone \in Disks /\ InUse \in Disks
      BY <3>1 DEF Gone, InUse, Disks
    <3> QED BY <3>2
  <2>6. DOMAIN slot' = 1..top /\ slot' \in Seq(SlotRecs) /\ \A i \in 1..top : slot'[i] = EmptySlot
    <3> HIDE DEF EmptySlot
    <3> QED BY <2>1, <2>2, <2>3
  <2>7. sample' \in [1..top -> Pairs]
    BY <2>1, <2>4
  <2>8. disk' \in [Names -> Disks]
    BY <2>1, <2>5
  <2>9. DiskTypes'
    BY <1>0, <1>1, <1>2, <2>6, <2>7, <2>8 DEF DiskTypes, Slots
  <2>10. OwnSlots(slot)'
    BY <2>3, <2>6 DEF OwnSlots
  <2>11. Kept'
    BY <1>1, <2>3, <2>6 DEF Kept, Slots
  <2> QED BY <1>3, <2>9, <2>10, <2>11 DEF DiskInv
<1>6. ~opts'.bad \/ (disk' = disk /\ slot' = slot /\ sample' = sample)
  BY Zenon DEF DiskStart
<1> QED BY <1>4, <1>5, <1>6

\* The report begins with all arguments but the last, whatever they are.
DiskStep == DiskNext \/ \E args \in Seq(STRING) : DiskStart(args)

\* The arguments stay what they are.
ArgvType == argv \in Seq(STRING)

LEMMA ArgvInit == Init => ArgvType
  BY CliAssumption DEF Init, CliInit, ArgvType

LEMMA ArgvNext == ArgvType /\ [Next]_vars => ArgvType'
<1> SUFFICES ASSUME ArgvType, [Next]_vars PROVE argv' = argv
  BY DEF ArgvType
<1>1. CASE UNCHANGED cvars
  BY <1>1 DEF cvars
<1>2. CASE ReadConfig \/ Parse \/ ParseDisk \/ Measure
  BY <1>2 DEF ReadConfig, Parse, ParseDisk, Measure, Parsing, ParseUnchanged, ParseFlag,
     ParseValued, ParseStyle, ParseRateUnit, ParseTraffic, ParseLive, ParseImmediate, ParseUnknown
<1>3. CASE Stage
  BY <1>3, Zenon DEF Stage, Scan, Merge, SaveMerged, Reset, Sync, Delete, ClearTop, RebuildTotal,
     Activate, UpdateAll, UpdateNext, UpdateEnd, UpdateNamed, ShowQuery, Keep, Refuse, ChangeRecord
<1> QED BY <1>1, <1>2, <1>3, StepsOfCli DEF CliNext

LEMMA StepsOfDisk == ArgvType /\ [Next]_vars => [DiskStep]_dvars
<1> SUFFICES ASSUME ArgvType, [Next]_vars PROVE [DiskStep]_dvars
  OBVIOUS
<1>1. CASE Main \/ CallTraffic \/ CallLive \/ Monitor \/ UNCHANGED vars
  BY <1>1 DEF Main, CallTraffic, CallLive, Monitor, vars
<1>2. CASE CallDisk
  <2>1. DiskArguments \in Seq(STRING)
    BY DEF DiskArguments, ArgvType
  <2>2. DiskStart(DiskArguments)
    BY <1>2 DEF CallDisk
  <2> QED BY <2>1, <2>2, Zenon DEF DiskStep
<1>3. CASE Report
  BY <1>3 DEF Report, DiskStep
<1> QED BY <1>1, <1>2, <1>3 DEF Next

LEMMA DiskFirst == Init => DiskInv
<1> SUFFICES ASSUME Init PROVE DiskInv
  OBVIOUS
<1>1. DiskInit
  BY DEF Init
<1>2. slot = <<>> /\ Slots = {}
  BY <1>1 DEF DiskInit, Slots
<1>3. DiskTypes
  <2>1. Gone \in Disks /\ 0 \in 0..Mask
    BY DiskAssumption DEF Gone, Disks
  <2>2. disk \in [Names -> Disks] /\ moved \in [Names -> 0..Mask]
    BY <1>1, <2>1 DEF DiskInit
  <2>3. slot \in Seq(SlotRecs) /\ sample \in [Slots -> Pairs]
    BY <1>1, <1>2 DEF DiskInit
  <2>4. "dlist" \in DOMAIN opts /\ opts.dlist \in Seq(STRING)
    BY <1>1 DEF DiskInit, NoOpts
  <2> QED BY <1>1, <2>2, <2>3, <2>4 DEF DiskInit, DiskTypes
<1>4. OwnSlots(slot) /\ Kept
  BY <1>1, <1>2 DEF DiskInit, OwnSlots, Kept, Slots
<1>5. SamplesRight
  BY <1>1 DEF DiskInit, SamplesRight
<1> QED BY <1>3, <1>4, <1>5 DEF DiskInv

LEMMA DiskKeeps == ArgvType /\ DiskInv /\ [Next]_vars => DiskInv'
<1> SUFFICES ASSUME DiskInv, [DiskStep]_dvars PROVE DiskInv'
  BY StepsOfDisk
<1>1. CASE UNCHANGED dvars
  <2>1. UNCHANGED DiskUnchanged /\ disk' = disk /\ moved' = moved /\ replugged' = replugged
    BY <1>1 DEF dvars, DiskUnchanged
  <2>2. SamplesRight'
    BY <2>1, KernelReports DEF DiskInv
  <2>3. DiskTypes' /\ OwnSlots(slot)' /\ Kept'
    BY <2>1 DEF DiskInv, DiskTypes, OwnSlots, Kept, Slots, Newest, Present, DiskUnchanged
  <2> QED BY <2>2, <2>3 DEF DiskInv
<1>2. CASE \E args \in Seq(STRING) : DiskStart(args)
  BY <1>2, StartDisk
<1>3. CASE DiskNext
  BY <1>3, ReadDisk, ReadFailsDisk, ShowDisk, IoDisk, PlugDisk DEF DiskNext
<1> QED BY <1>1, <1>2, <1>3 DEF DiskStep

\* What a report shows of a device is what it read since the last report that
\* had it, or since it appeared, and every device that is asked for has one row:
\* for any number of devices that come and go, of slots and of rounds, and
\* counters of any width.
THEOREM SamplesRightAlways == Spec => []SamplesRight
<1>1. DiskInv => SamplesRight
  BY DEF DiskInv
<1> QED BY <1>1, ArgvInit, ArgvNext, DiskFirst, DiskKeeps, PTL DEF Spec
=============================================================================
