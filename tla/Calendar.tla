------------------------------ MODULE Calendar ------------------------------
(***************************************************************************)
(* The days, months, hours and the top 10 of a record: what parseifinfo    *)
(* (ifinfo.c) does with them after it has worked out the traffic, with     *)
(* cleanhours, rotatedays, rotatemonths and initdb (dbaccess.c), and the   *)
(* commands of vnstat.c that change them.                                  *)
(*                                                                         *)
(* Time is counted in minutes, from the epoch.  The length of a day and of *)
(* every month, and the sizes of the arrays, are parameters, so that TLC   *)
(* meets the end of a year after a few days.  The traffic of a pass is     *)
(* given in KiB: how it is worked out is the subject of Accounting.        *)
(***************************************************************************)
EXTENDS Counters, Sequences, FiniteSets, FiniteSetsExt, Functions

CONSTANTS
    HoursPerDay, MinutesPerHour,
    MonthsPerYear,
    MonthLength,        \* days of the months since the epoch, a sequence
    NDays,              \* entries of data.day: 30
    NMonths,            \* entries of data.month: 12
    NTop,               \* entries of data.top10: 10
    MonthRotate,        \* cfg.monthrotate
    TraflessDay,        \* cfg.traflessday: keep days without traffic
    Amounts,            \* KiB per direction that a pass may find
    Aliased,            \* what may be read from beyond the end of an array
    Starts,             \* when the database is created
    Instants,           \* bound: the minutes at which something may happen
    RetireAt,           \* bound: when an interface may be removed
    MaxNow,             \* bound: the last minute explored
    MaxTraffic,         \* bound: passes that find traffic
    MaxSaves            \* bound: saves that count nothing

Dir == {"rx", "tx"}

DayLength == HoursPerDay * MinutesPerHour

ASSUME CalendarAssumption ==
    /\ HoursPerDay \in Nat \ {0} /\ MinutesPerHour \in Nat \ {0}
    /\ MonthsPerYear \in Nat \ {0}
    /\ NDays \in Nat \ {0, 1} /\ NMonths \in Nat \ {0, 1} /\ NTop \in Nat \ {0}
    /\ TraflessDay \in BOOLEAN
    /\ Amounts \subseteq [Dir -> Nat]
    /\ Aliased \subseteq [Dir -> Nat]
    /\ MaxNow \in Nat /\ Starts \subseteq 0..MaxNow /\ Instants \subseteq 0..MaxNow
    /\ RetireAt \subseteq Nat /\ MaxTraffic \in Nat /\ MaxSaves \in Nat

ASSUME MonthsAssumption ==
    /\ MonthLength \in Seq(Nat)
    /\ \A n \in DOMAIN MonthLength : MonthRotate \in 1..MonthLength[n]

VARIABLES
    now,        \* time(NULL)
    data,       \* the record: its arrays, its total, lastupdated
    retired,    \* the record of an interface that is gone, or NoRecord
    lastpass,   \* history: when traffic was last counted
    log,        \* history: KiB counted, by the day on which the period began
    hourlog,    \* history: KiB counted, by the hour they belong to
    dropped,    \* history: KiB of the months that left the array
    cleared,    \* history: the first day the top 10 knows of
    busy,       \* history: passes that found traffic
    skipped,    \* history: a billing month went by without an update
    saves       \* history: how often the record was written without counting

vars == <<now, data, retired, lastpass, log, hourlog, dropped, cleared, busy, skipped, saves>>

Zero == [x \in Dir |-> 0]

Plus(a, b) == [x \in Dir |-> a[x] + b[x]]

\* The KiB of both directions together.
Both(a) == a["rx"] + a["tx"]

NoRecord == [created |-> FALSE]

-----------------------------------------------------------------------------
(***************************************************************************)
(* localtime and mktime.                                                   *)
(***************************************************************************)

DayOf(t) == t \div DayLength

\* Hours since the epoch, and the hour of the day.
HourNumber(t) == t \div MinutesPerHour
tm_hour(t) == HourNumber(t) % HoursPerDay
tm_min(t) == t % MinutesPerHour

\* The day on which month n begins, months counted from the epoch, and the
\* month of a day.
FirstDay == [n \in 0..Len(MonthLength) |-> SumFunctionOnSet(MonthLength, 1..n)]

MonthOf == [day \in 0..(FirstDay[Len(MonthLength)] - 1) |->
              CHOOSE n \in 0..(Len(MonthLength) - 1) :
                 FirstDay[n] <= day /\ day < FirstDay[n + 1]]

mday(day) == day - FirstDay[MonthOf[day]] + 1

tm_mday(t) == mday(DayOf(t))
tm_mon(t) == MonthOf[DayOf(t)] % MonthsPerYear

\* mktime of the day-th of month n, at the time of day of t; a day that the
\* month does not have is one of the next month.
mktime(n, day, t) == (FirstDay[n] + day - 1) * DayLength + (t % DayLength)

-----------------------------------------------------------------------------
(***************************************************************************)
(* The record.                                                             *)
(***************************************************************************)

ZeroSum == [x \in Dir |-> [mb |-> 0, kb |-> 0]]

Unused == [date |-> 0, sum |-> ZeroSum, used |-> FALSE]

\* The MiB and the KiB of both directions, and all of it in KiB.
MB(e) == e.sum["rx"].mb + e.sum["tx"].mb
KB(e) == e.sum["rx"].kb + e.sum["tx"].kb
InKiB(sum) == [x \in Dir |-> InKB(sum[x].mb, sum[x].kb)]
Size(e) == Both(InKiB(e.sum))

Add(sum, a) == [x \in Dir |-> addtraffic(sum[x], a[x] \div K, a[x] % K)]

\* A new database.  The month that is open on a day before MonthRotate is
\* the previous one.
initdb ==
    [total |-> ZeroSum,
     lastupdated |-> now,
     day |-> [i \in 0..(NDays - 1) |->
                IF i = 0 THEN [Unused EXCEPT !.date = now, !.used = TRUE] ELSE Unused],
     month |-> [i \in 0..(NMonths - 1) |->
                IF i = 0 THEN [date |-> IF tm_mday(now) < MonthRotate
                                          THEN mktime(MonthOf[DayOf(now)] - 1, MonthRotate, now)
                                          ELSE now,
                               sum |-> ZeroSum, used |-> TRUE]
                ELSE Unused],
     top10 |-> [i \in 0..(NTop - 1) |-> Unused],
     hour |-> [i \in 0..(HoursPerDay - 1) |-> [date |-> 0, sum |-> Zero]]]

-----------------------------------------------------------------------------
(***************************************************************************)
(* The calendar part of parseifinfo, step by step on the record d.         *)
(***************************************************************************)

AddCurrent(d, a) ==
    [d EXCEPT !.total = Add(@, a),
              !.day[0].sum = Add(@, a),
              !.month[0].sum = Add(@, a)]

TooOld(h) == h.date # 0 /\ h.date <= now - DayLength

\* Hours a day old are removed, and the current one if it is not of today.
cleanhours(d) ==
    LET kept == [i \in DOMAIN d.hour |->
                   IF TooOld(d.hour[i]) THEN [date |-> 0, sum |-> Zero] ELSE d.hour[i]]
        h == tm_hour(now)
    IN [d EXCEPT !.hour = IF tm_mday(kept[h].date) # tm_mday(now)
                            THEN [kept EXCEPT ![h] = [date |-> now, sum |-> Zero]]
                            ELSE kept]

\* Variant: at X:00 the traffic goes to the hour that has just begun.
CreditedNow(d) == tm_hour(now)

\* The hour that gets the traffic: at X:00 the one before, if the previous
\* update was in another hour and not longer ago than an hour.
Credited(d) ==
    IF /\ tm_min(now) = 0
       /\ tm_hour(d.lastupdated) # tm_hour(now)
       /\ now - d.lastupdated <= MinutesPerHour
    THEN (tm_hour(now) + HoursPerDay - 1) % HoursPerDay
    ELSE tm_hour(now)

UpdateHours(d, a) ==
    [cleanhours(d) EXCEPT !.hour[tm_hour(now)].date = now,
                          !.hour[Credited(d)].sum = Plus(@, a)]

\* Variant: the KiB decide only among days with more MiB.
BeatsMB(e, t) == MB(e) > MB(t)

Beats(e, t) == MB(e) > MB(t) \/ (MB(e) = MB(t) /\ KB(e) > KB(t))

\* e takes the place of the first entry that it beats; the others move down.
Ranked(top, e) ==
    LET beaten == {i \in DOMAIN top : Beats(e, top[i])} IN
    IF beaten = {} THEN top
    ELSE LET first == CHOOSE i \in beaten : \A j \in beaten : i <= j IN
         [i \in DOMAIN top |-> IF i < first THEN top[i]
                               ELSE IF i = first THEN e
                               ELSE top[i - 1]]

\* Variant: the new entry is not emptied.
ShiftedOnly(array) ==
    [i \in DOMAIN array |-> IF i = 0 THEN [array[0] EXCEPT !.date = now] ELSE array[i - 1]]

\* The entries of an array one place further on, and an empty one of now.
Shifted(array) ==
    [i \in DOMAIN array |-> IF i = 0 THEN [array[0] EXCEPT !.date = now, !.sum = ZeroSum]
                            ELSE array[i - 1]]

rotatedays(d) == [d EXCEPT !.day = Shifted(@), !.top10 = Ranked(@, d.day[0])]

rotatemonths(d) == [d EXCEPT !.month = Shifted(@)]

\* A day without traffic gives its entry to the next, if so configured.
UpdateDays(d) ==
    IF DayOf(d.day[0].date) = DayOf(now) THEN d
    ELSE IF d.day[0].sum = ZeroSum /\ ~TraflessDay THEN [d EXCEPT !.day[0].date = now]
    ELSE rotatedays(d)

\* Variant: the month is closed on its last day.
MonthOverAny(d) == tm_mon(d.month[0].date) # tm_mon(now)

MonthOver(d) == tm_mon(d.month[0].date) # tm_mon(now) /\ tm_mday(now) >= MonthRotate

UpdateMonths(d) == IF MonthOver(d) THEN rotatemonths(d) ELSE d

\* Variant: days and months are rotated before the traffic is added.
parseifinfoLate(d, a) == UpdateHours(AddCurrent(UpdateMonths(UpdateDays(d)), a), a)

parseifinfo(d, a) == UpdateMonths(UpdateDays(UpdateHours(AddCurrent(d, a), a)))

Written(d) == [d EXCEPT !.lastupdated = now]

-----------------------------------------------------------------------------
Days == 0..DayOf(MaxNow)

\* The month that day belongs to when months begin on MonthRotate.
Billing(day) == MonthOf[day] - (IF mday(day) < MonthRotate THEN 1 ELSE 0)

\* The months reach from before the first database to beyond the last minute.
ASSUME SpanAssumption ==
    /\ DayOf(MaxNow) < FirstDay[Len(MonthLength)]
    /\ \A t \in Starts : Billing(DayOf(t)) >= 0

Init ==
    /\ now \in Starts
    /\ data = parseifinfo(initdb, Zero)
    /\ retired = NoRecord
    /\ lastpass = now
    /\ log = [d \in Days |-> Zero]
    /\ hourlog = [h \in 0..HourNumber(MaxNow) |-> Zero]
    /\ dropped = Zero
    /\ cleared = 0
    /\ busy = 0
    /\ skipped = FALSE
    /\ saves = 0

Tick ==
    /\ now' \in Instants
    /\ now' > now
    /\ \A t \in Instants : t > now => now' <= t
    /\ UNCHANGED <<data, retired, lastpass, log, hourlog, dropped, cleared, busy, skipped, saves>>

\* The hour the traffic of this pass belongs to: the one that has just ended
\* if the pass is at its very end, and the last one fell into it.
OwnHour ==
    IF tm_min(now) = 0 /\ HourNumber(data.lastupdated) = HourNumber(now) - 1
        THEN HourNumber(now) - 1 ELSE HourNumber(now)

(***************************************************************************)
(* One update, by the daemon or by vnstat -u, that finds a KiB of traffic. *)
(***************************************************************************)
Pass ==
    \E a \in Amounts \cup {Zero} :
        /\ now > lastpass
        /\ a # Zero => busy < MaxTraffic
        /\ busy' = IF a = Zero THEN busy ELSE busy + 1
        /\ data' = Written(parseifinfo(data, a))
        /\ lastpass' = now
        /\ log' = [log EXCEPT ![DayOf(lastpass)] = Plus(@, a)]
        /\ hourlog' = [hourlog EXCEPT ![OwnHour] = Plus(@, a)]
        /\ dropped' = IF MonthOver(data)
                         THEN Plus(dropped, InKiB(data.month[NMonths - 1].sum)) ELSE dropped
        /\ LET gap == Billing(DayOf(now)) - Billing(DayOf(lastpass)) IN
           skipped' = (skipped \/ (gap # 0 /\ (tm_mday(now) < MonthRotate
                                              \/ gap % MonthsPerYear = 0)))
        /\ UNCHANGED <<now, retired, cleared, saves>>

(***************************************************************************)
(* A save that counts nothing: --reset, --enable, --disable, --sync, or    *)
(* the daemon's passes over an interface that is down.                     *)
(***************************************************************************)
Touch ==
    /\ data' = Written(data)
    /\ saves < MaxSaves /\ saves' = saves + 1
    /\ UNCHANGED <<now, retired, lastpass, log, hourlog, dropped, cleared, busy, skipped>>

\* vnstat --cleartop --force.
ClearTop ==
    /\ data' = Written([data EXCEPT !.top10 = [i \in DOMAIN @ |->
                            [@[i] EXCEPT !.sum = ZeroSum, !.used = FALSE]]])
    /\ cleared' = DayOf(data.day[0].date)
    /\ saves < MaxSaves /\ saves' = saves + 1
    /\ UNCHANGED <<now, retired, lastpass, log, hourlog, dropped, busy, skipped>>

(***************************************************************************)
(* vnstat --rebuildtotal --force: the sum of data.month[0..29], an array   *)
(* of 12.  In DATA the array is followed by top10, of the same layout, and *)
(* by the hours: the first ten entries beyond the end are the top 10, the  *)
(* rest is whatever the bytes of the hours amount to.                      *)
(***************************************************************************)
Rebuilt(d) ==
    LET Used(array) == [i \in DOMAIN array |-> IF array[i].used THEN InKiB(array[i].sum) ELSE Zero]
        Total(array) == FoldFunction(Plus, Zero, Used(array))
    IN {Add(ZeroSum, Plus(Plus(Total(d.month), Total(d.top10)), beyond)) : beyond \in Aliased}

RebuildTotal ==
    /\ \E sum \in Rebuilt(data) : data' = Written([data EXCEPT !.total = sum])
    /\ saves < MaxSaves /\ saves' = saves + 1
    /\ UNCHANGED <<now, retired, lastpass, log, hourlog, dropped, cleared, busy, skipped>>

\* The interface is removed from the machine; its database stays as it is.
Retire ==
    /\ now \in RetireAt /\ retired = NoRecord
    /\ retired' = data
    /\ UNCHANGED <<now, data, lastpass, log, hourlog, dropped, cleared, busy, skipped, saves>>

Next == Tick \/ Pass \/ Touch \/ ClearTop \/ Retire

Spec == Init /\ [][Next]_vars
RebuildSpec == Init /\ [][Next \/ RebuildTotal]_vars

-----------------------------------------------------------------------------
(***************************************************************************)
(* Properties.                                                             *)
(***************************************************************************)

Sums == [Dir -> [mb : Nat, kb : 0..(K - 1)]]
Entries == [date : 0..MaxNow, sum : Sums, used : BOOLEAN]
Records ==
    [total : Sums, lastupdated : 0..MaxNow,
     day : [0..(NDays - 1) -> Entries], month : [0..(NMonths - 1) -> Entries],
     top10 : [0..(NTop - 1) -> Entries],
     hour : [0..(HoursPerDay - 1) -> [date : 0..MaxNow, sum : [Dir -> Nat]]]]

\* Every sum of a record is normalised, through all additions and rotations.
TypeOK ==
    /\ now \in 0..MaxNow /\ lastpass \in 0..MaxNow
    /\ data \in Records /\ retired \in Records \cup {NoRecord}
    /\ log \in [Days -> [Dir -> Nat]]
    /\ hourlog \in [0..HourNumber(MaxNow) -> [Dir -> Nat]]
    /\ dropped \in [Dir -> Nat]
    /\ cleared \in Days /\ busy \in 0..MaxTraffic
    /\ skipped \in BOOLEAN /\ saves \in 0..MaxSaves

\* The entry of a day (parseifinfo, rotatedays) holds the traffic of the
\* periods that began on that day, and nothing else; no date has two entries,
\* the entries are in order, and a day with traffic has one until newer days
\* have pushed it out.
DaysExact ==
    LET used == {i \in DOMAIN data.day : data.day[i].used} IN
    /\ \A i \in used : InKiB(data.day[i].sum) = log[DayOf(data.day[i].date)]
    /\ \A i, j \in used : i < j => DayOf(data.day[i].date) > DayOf(data.day[j].date)
    /\ \A d \in Days : log[d] # Zero =>
          \/ \E i \in used : DayOf(data.day[i].date) = d
          \/ used = DOMAIN data.day /\ d < DayOf(data.day[NDays - 1].date)

\* The entry of a month holds the traffic of the days from MonthRotate to the
\* day before it in the next month (rotatemonths, initdb), if every month saw
\* an update on MonthRotate or later.
MonthsExact ==
    ~skipped =>
    \A i \in DOMAIN data.month :
        data.month[i].used =>
            LET own == {d \in Days : Billing(d) = Billing(DayOf(data.month[i].date))} IN
            InKiB(data.month[i].sum) = FoldFunctionOnSet(Plus, Zero, log, own)

\* The top 10 (rotatedays) holds the days with most traffic among the ended
\* ones since it was cleared, each once and with all its traffic.  The order
\* may be wrong by K - 2 KiB: the KiB parts of the directions are not carried
\* into the MiB when days are compared.
TopBest ==
    LET used == {i \in DOMAIN data.top10 : data.top10[i].used}
        ended == {d \in cleared..(DayOf(data.day[0].date) - 1) : log[d] # Zero}
        listed == {DayOf(data.top10[i].date) : i \in used}
    IN
    /\ listed \subseteq ended
    /\ Cardinality(listed) = Cardinality(used)
    /\ used = DOMAIN data.top10 \/ listed = ended
    /\ \A i \in used : InKiB(data.top10[i].sum) = log[DayOf(data.top10[i].date)]
    /\ \A i \in used, d \in ended \ listed : Both(log[d]) <= Size(data.top10[i]) + K - 2
    /\ \A i, j \in DOMAIN data.top10 :
          i < j => Size(data.top10[j]) <= Size(data.top10[i]) + K - 2

\* What all entries of an array hold.
OfAll(array) == FoldFunction(Plus, Zero, [i \in DOMAIN array |-> InKiB(array[i].sum)])

\* The total is what the months hold and held (addtraffic, rotatemonths).
Conserved == InKiB(data.total) = Plus(dropped, OfAll(data.month))

\* vnstat's help (vnstat.c:109): "rebuild total transfers from months".
RebuildExact == [][RebuildTotal => InKiB(data'.total) = OfAll(data.month)]_vars
=============================================================================
