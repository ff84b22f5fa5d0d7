-------------------------------- MODULE Show ---------------------------------
(***************************************************************************)
(* What the queries of vnstat work out from a record before they print it  *)
(* (dbshow.c, common.c): estimates, weeks, and the order of the hours.     *)
(*                                                                         *)
(* Estimates are computed in floating point from whole MiB.  The rounding  *)
(* of floats is left out: a quotient is rounded down once, at the end.     *)
(***************************************************************************)
EXTENDS Merge

CONSTANTS
    WeekDays,       \* 7
    WeeksPerYear    \* the number of the last week of a year

ASSUME ShowAssumption == WeekDays \in Nat \ {0} /\ WeeksPerYear \in Nat \ {0}

-----------------------------------------------------------------------------
\* The days of a month of the year that it is now.
dmonth(mon) ==
    MonthLength[MonthOf[DayOf(now)] - (MonthOf[DayOf(now)] % MonthsPerYear) + mon + 1]

\* Variant: months are taken to begin on their first day.
mosecsFirst(d) ==
    LET date == d.month[0].date IN
    IF tm_mday(date) < MonthRotate \/ d.lastupdated <= date THEN 0
    ELSE d.lastupdated - mktime(MonthPeriod(date), 1, 0)

\* From the start of the open month to the last update; 0 when its entry bears
\* a day before MonthRotate, or was made later.
mosecs(d) ==
    LET date == d.month[0].date IN
    IF tm_mday(date) < MonthRotate \/ d.lastupdated <= date THEN 0
    ELSE d.lastupdated - mktime(MonthPeriod(date), MonthRotate, 0)

MonthGuarded(d) ==
    \/ \E x \in Dir : d.month[0].sum[x].mb = 0
    \/ d.lastupdated = d.month[0].date

MonthEstimate(d) ==
    [x \in Dir |-> IF MonthGuarded(d) THEN 0
                   ELSE (d.month[0].sum[x].mb * dmonth(tm_mon(d.month[0].date)) * DayLength)
                            \div mosecs(d)]

\* Minutes of the day of the last update.
DayMinutes(d) == d.lastupdated % DayLength

DayEstimate(d) ==
    [x \in Dir |-> IF DayMinutes(d) = 0 \/ \E y \in Dir : d.day[0].sum[y].mb = 0 THEN 0
                   ELSE (d.day[0].sum[x].mb * DayLength) \div DayMinutes(d)]

-----------------------------------------------------------------------------
\* The number of the week of a day, as strftime's %V has it.
WeekOf(day) == ((day \div WeekDays) % WeeksPerYear) + 1

\* Traffic of the used days of a set of entries.
DaysSum(d, entries) ==
    FoldFunctionOnSet(LAMBDA e, sum : Add(sum, InKiB(e.sum)), ZeroSum, d.day,
                      {i \in entries : d.day[i].used})

LastDays(d) ==
    DaysSum(d, {i \in DOMAIN d.day : d.day[i].date >= now - WeekDays * DayLength})

ThisWeek(d) ==
    DaysSum(d, {i \in DOMAIN d.day : WeekOf(DayOf(d.day[i].date)) = WeekOf(DayOf(now))})

LastWeek(d) ==
    DaysSum(d, {i \in DOMAIN d.day : WeekOf(DayOf(d.day[i].date)) = WeekOf(DayOf(now)) - 1})

-----------------------------------------------------------------------------
\* The hour shown last: the one with the latest date.
LastHour(d) ==
    Max({i \in DOMAIN d.hour : \A j \in DOMAIN d.hour : d.hour[j].date <= d.hour[i].date})

\* The hour shown k places before it.
ShownHour(d, k) == (LastHour(d) - k + HoursPerDay) % HoursPerDay

-----------------------------------------------------------------------------
\* The records a query may be about: a merge is one.
Shown == {data} \cup IF retired = NoRecord THEN {} ELSE {retired, mergedb(data, retired)}

\* The estimate for the month never divides by zero, though showsummary,
\* showshort and showmonths test other things than mosecs does; and what is
\* expected of the whole month is not less than what it has seen already, if
\* the month is one of this year; nor is what is expected of the day.
EstimateSound ==
    /\ \A d \in Shown : MonthGuarded(d) \/ mosecs(d) # 0
    /\ \A d \in {data, retired} \ {NoRecord} :
          LET open == DayOf(d.month[0].date) IN
          Billing(DayOf(d.lastupdated)) = Billing(open)
          /\ MonthOf[open] \div MonthsPerYear = MonthPeriod(now) \div MonthsPerYear
          /\ ~MonthGuarded(d)
             => \A x \in Dir : MonthEstimate(d)[x] >= d.month[0].sum[x].mb
    /\ DayOf(data.lastupdated) = DayOf(data.day[0].date) =>
          \A x \in Dir :
             DayEstimate(data)[x] = 0 \/ DayEstimate(data)[x] >= data.day[0].sum[x].mb

\* An hour that is dated holds the traffic of the hour of that date and has
\* its place; one that is not holds nothing (cleanhours, parseifinfo), as
\* long as no save without an update moved lastupdated.  showhours prints
\* them in the order of time: dated entries grow older from the last one
\* backwards, and belong to different hours.
HoursExact ==
    /\ saves = 0 =>
          \A i \in DOMAIN data.hour :
             LET h == data.hour[i] IN
             IF h.date = 0 THEN h.sum = Zero
             ELSE tm_hour(h.date) = i /\ h.sum = hourlog[HourNumber(h.date)]
    /\ \A k, l \in 0..(HoursPerDay - 1) :
          LET a == data.hour[ShownHour(data, k)].date
              b == data.hour[ShownHour(data, l)].date
          IN k < l /\ a # 0 /\ b # 0 => HourNumber(a) > HourNumber(b)

\* showweeks credits a week with the traffic of its days, as far as the record
\* still has them: a week is told by its number alone, which holds as long as
\* no entry is as old as a year.  (In week 1 it knows of no last week.)  The
\* last seven days are those before today and today, or one more.
WeeksExact ==
    LET used == {i \in DOMAIN data.day : data.day[i].used}
        week == DayOf(now) \div WeekDays
        Kept(d) == used # DOMAIN data.day \/ d >= DayOf(data.day[NDays - 1].date)
        Sum(w) == FoldFunctionOnSet(Plus, Zero, log,
                                    {d \in Days : d \div WeekDays = w /\ Kept(d)})
        Since(n) == FoldFunctionOnSet(Plus, Zero, log,
                                      {d \in Days : d >= DayOf(now) - n /\ Kept(d)})
    IN
    (\A i \in used : week - DayOf(data.day[i].date) \div WeekDays < WeeksPerYear) =>
        /\ InKiB(ThisWeek(data)) = Sum(week)
        /\ WeekOf(DayOf(now)) # 1 => InKiB(LastWeek(data)) = Sum(week - 1)
        /\ InKiB(LastDays(data)) \in {Since(WeekDays - 1), Since(WeekDays)}
=============================================================================
