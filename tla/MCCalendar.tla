----------------------------- MODULE MCCalendar ------------------------------
(* Years of three short months, days of three hours of two minutes.        *)
EXTENDS Show

\* The second year is a leap year.
MCMonthLength == <<3, 2, 3,  3, 3, 3,  3, 2, 3>>

MCAmounts == {[rx |-> 2, tx |-> 2], [rx |-> 3, tx |-> 0]}
\* The hours behind the top 10 are taken for empty.
MCAliased == {[rx |-> 0, tx |-> 0]}
=============================================================================
