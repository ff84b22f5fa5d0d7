-------------------------------- MODULE Merge --------------------------------
(***************************************************************************)
(* The query "-i a+b" (dbmerge.c): the records of several interfaces are   *)
(* added up in a record of its own, whose days and months are laid out     *)
(* from today backwards before anything is added to them.                  *)
(***************************************************************************)
EXTENDS Calendar

Before(date) == mktime(MonthOf[DayOf(date)] - 1, tm_mday(date), date)

\* The dates of the months: each is a month before the last, on the same day
\* of the month, or some days into the next month if it has no such day.
MonthDates ==
    LET date[i \in 0..(NMonths - 1)] == IF i = 0 THEN now ELSE Before(date[i - 1])
    IN [i \in 0..(NMonths - 1) |-> date[i]]

emptydb ==
    [total |-> ZeroSum,
     lastupdated |-> 0,
     day |-> [i \in 0..(NDays - 1) |->
                [date |-> now - i * DayLength, sum |-> ZeroSum, used |-> TRUE]],
     month |-> [i \in 0..(NMonths - 1) |->
                  [date |-> MonthDates[i], sum |-> ZeroSum, used |-> TRUE]],
     top10 |-> [i \in 0..(NTop - 1) |-> Unused],
     hour |-> [i \in 0..(HoursPerDay - 1) |-> [date |-> 0, sum |-> Zero]]]

\* Variant: the KiB of a full MiB are lost when the sums are added.
AddSumCarry(s, t) ==
    [x \in Dir |-> [mb |-> s[x].mb + t[x].mb, kb |-> (s[x].kb + t[x].kb) % K]]

\* MiB and KiB are added apart, and nothing is carried.
AddSum(s, t) ==
    [x \in Dir |-> [mb |-> s[x].mb + t[x].mb, kb |-> s[x].kb + t[x].kb]]

\* The day or the month of a date.
MonthPeriod(date) == MonthOf[DayOf(date)]
Period(unit, date) == IF unit = "day" THEN DayOf(date) ELSE MonthPeriod(date)

\* The used entries of an array of days or months that are of period p.
OfPeriod(array, p, unit) ==
    {i \in DOMAIN array : array[i].used /\ Period(unit, array[i].date) = p}

(***************************************************************************)
(* The entries of an array, each with those of another of the same period  *)
(* added.  The loop over the entries j ends at the first that is older,    *)
(* which changes nothing: they are in order.  An entry takes the earliest  *)
(* date, of the same period.                                               *)
(***************************************************************************)
MergeArray(into, from, unit) ==
    [j \in DOMAIN into |->
        LET same == OfPeriod(from, Period(unit, into[j].date), unit) IN
        [into[j] EXCEPT
            !.sum = FoldFunctionOnSet(LAMBDA e, sum : AddSum(sum, e.sum), @, from, same),
            !.date = Min({@} \cup {from[i].date : i \in same})]]

\* d, with the record r added to it.  The hours of r are cleaned first.
mergewith(d, r) ==
    LET hours == cleanhours(r).hour IN
    [total |-> AddSum(d.total, r.total),
     lastupdated |-> IF r.lastupdated > d.lastupdated THEN r.lastupdated ELSE d.lastupdated,
     day |-> MergeArray(d.day, r.day, "day"),
     month |-> MergeArray(d.month, r.month, "month"),
     top10 |-> d.top10,
     hour |-> [i \in DOMAIN d.hour |->
                 IF hours[i].date = 0 THEN d.hour[i]
                 ELSE [date |-> hours[i].date, sum |-> Plus(d.hour[i].sum, hours[i].sum)]]]

\* The oldest entries, as far as they are empty, are not shown.
Trimmed(array) ==
    [i \in DOMAIN array |->
        IF \A j \in DOMAIN array : j >= i => array[j].sum = ZeroSum
            THEN [array[i] EXCEPT !.used = FALSE] ELSE array[i]]

cleanmerged(d) == [d EXCEPT !.day = Trimmed(@), !.month = Trimmed(@)]

mergedb(r, s) == cleanmerged(mergewith(mergewith(emptydb, r), s))

-----------------------------------------------------------------------------
\* What the entries of period p in the array come to.
SumOf(array, p, unit) ==
    FoldFunctionOnSet(LAMBDA e, sum : Plus(sum, InKiB(e.sum)), Zero, array, OfPeriod(array, p, unit))

\* Every month in the array has the day of the month that it is today.
SameDayExists ==
    \A i \in 1..(NMonths - 1) :
        tm_mday(now) <= MonthLength[MonthPeriod(now) - i + 1]

\* The merge of two databases, one of which may not have been updated for
\* long, is the sum of its parts, period by period, for every period that
\* reaches into the merged arrays; nothing appears under another period.
\* (mergewith adds a month once for each entry that has it, and emptydb gives
\* it two when the month before has no such day: that is left out.)
MergeExact ==
    retired # NoRecord =>
    LET merged == mergedb(data, retired) IN
    /\ InKiB(merged.total) = Plus(InKiB(data.total), InKiB(retired.total))
    /\ \A p \in (DayOf(now) - NDays + 1)..DayOf(now) :
          SumOf(merged.day, p, "day") =
             Plus(SumOf(data.day, p, "day"), SumOf(retired.day, p, "day"))
    /\ SameDayExists =>
          \A p \in (MonthPeriod(now) - NMonths + 1)..MonthPeriod(now) :
             SumOf(merged.month, p, "month") =
                Plus(SumOf(data.month, p, "month"), SumOf(retired.month, p, "month"))
=============================================================================
