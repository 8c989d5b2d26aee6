------------------------------- MODULE CtTime -------------------------------
(***************************************************************************)
(* The date ct_getstrtime (src/CtCommon/src/ct_time.c) writes in front of  *)
(* every line of the log.  A state is a day: its number, from which the    *)
(* code computes the date, and its date in the calendar, which is counted  *)
(* on from day to day and is the reference.                                *)
(***************************************************************************)
EXTENDS Integers, Sequences, FiniteSets

CONSTANTS Windows,  \* years to start from
          MaxDays,  \* the bound on the days gone through in each
          Pasts     \* what the int after the table m may hold

ASSUME WindowsAssumption ==
  Windows \subseteq Nat /\ MaxDays \in Nat /\ Pasts \subseteq Int

VARIABLES ad,     \* days since 1970-01-01, in China
          date,   \* its date
          past,   \* what m[12] holds, which is not in the table
          left    \* days still to go through

timeVars == <<ad, date, past, left>>

-----------------------------------------------------------------------------
(* The calendar.                                                           *)

IsLeap(y) == y % 4 = 0 /\ (y % 100 # 0 \/ y % 400 = 0)

MonthLength(y) ==
  <<31, IF IsLeap(y) THEN 29 ELSE 28, 31, 30, 31, 30, 31, 31, 30, 31, 30, 31>>

NextDate(d) ==
  IF d.day < MonthLength(d.year)[d.month] THEN [d EXCEPT !.day = @ + 1]
  ELSE IF d.month < 12 THEN [d EXCEPT !.month = @ + 1, !.day = 1]
  ELSE [year |-> d.year + 1, month |-> 1, day |-> 1]

-----------------------------------------------------------------------------
(* The constants of ct_time.c, and ct_getstrtime.                          *)

YEARFIRST == 2001
YEARSTART == 365 * (YEARFIRST - 1970) + 8
YEAR400 == 365 * 4 * 100 + (4 * (100 \div 4 - 1) + 1)
YEAR100 == 365 * 100 + (100 \div 4 - 1)
YEAR004 == 365 * 4 + 1
YEAR001 == 365

(* Mutant: the leap days of a century are not taken from it.               *)
InCycleEveryFourth(n) == n % YEAR004

(* The day's number within its four years.                                 *)
InCycle(n) == ((n % YEAR400) % YEAR100) % YEAR004

Year(n) ==
  (n \div YEAR400) * 400 + ((n % YEAR400) \div YEAR100) * 100
    + (((n % YEAR400) % YEAR100) \div YEAR004) * 4
    + InCycle(n) \div YEAR001 + YEARFIRST

(* m, as the code indexes it: from 0.                                      *)
Months(february) ==
  [i \in 0..11 |-> <<31, february, 31, 30, 31, 30, 31, 31, 30, 31, 30, 31>>[i + 1]]

(* The days the loop has taken off when it comes to m[i]: it starts at     *)
(* index 1, and so the first month is as long as February.                 *)
TakenOff(m) ==
  LET taken[i \in 1..12] == IF i = 1 THEN 0 ELSE taken[i - 1] + m[i - 1]
  IN [i \in 1..12 |-> taken[i]]

Common == TakenOff(Months(28))
Leap == TakenOff(Months(29))

(* The rule of ct_getstrtime for the 29th of February.                     *)
MonthTable(y) ==
  IF IF y % 1000 = 0 THEN (y \div 1000) % 4 = 0 ELSE y % 4 = 0 THEN Leap ELSE Common

(* In the last month the loop goes on to m[12], past the table.            *)
PastTable(taken, dd) == taken[12] <= dd

MonthAndDay(taken, dd, beyond) ==
  LET mm == Cardinality({i \in 1..12 : taken[i] <= dd})
      rest == dd - taken[mm]
  IN IF mm = 12 /\ rest >= beyond
     THEN [month |-> 13, day |-> rest - beyond]
     ELSE [month |-> mm, day |-> rest]

DayOfYear(n) == InCycle(n) % YEAR001

Printed(d, beyond) ==
  LET n == d - YEARSTART
      md == MonthAndDay(MonthTable(Year(n)), DayOfYear(n), beyond)
  IN [year |-> Year(n), month |-> md.month, day |-> md.day]

-----------------------------------------------------------------------------
(* A day goes by.                                                          *)

LeapYearsTo(y) == y \div 4 - y \div 100 + y \div 400

FirstDay(y) ==
  YEARSTART + 365 * (y - YEARFIRST) + LeapYearsTo(y - 1) - LeapYearsTo(YEARFIRST - 1)

TimeInit ==
  /\ \E y \in Windows :
       ad = FirstDay(y) /\ date = [year |-> y, month |-> 1, day |-> 1]
  /\ past \in Pasts
  /\ left = MaxDays

DayGoesBy ==
  /\ left > 0
  /\ ad' = ad + 1
  /\ date' = NextDate(date)
  /\ past' \in Pasts
  /\ left' = left - 1

TimeSpec == TimeInit /\ [][DayGoesBy]_timeVars

-----------------------------------------------------------------------------
(* Properties.                                                             *)

LastOfLeapYear == IsLeap(date.year) /\ date.month = 12 /\ date.day = 31

(* The year is right, except on the last day of a leap year, which is the  *)
(* day 365 of the year and already counted to the next.                    *)
YearRight == LastOfLeapYear \/ Printed(ad, past).year = date.year

Earlier(a, b) ==
  \/ a.year < b.year
  \/ a.year = b.year /\ (a.month < b.month \/ (a.month = b.month /\ a.day < b.day))

ReadPast ==
  LET n == ad - YEARSTART IN PastTable(MonthTable(Year(n)), DayOfYear(n))

(* The date, right or wrong, goes up from each day to the next, except     *)
(* among the days of the last month, for which the loop reads past the     *)
(* table, and for the last day of a leap year, which has the date of the   *)
(* day after it.                                                           *)
InOrder ==
  CASE LastOfLeapYear -> Printed(ad, past)' = Printed(ad, past)
    [] ReadPast /\ ReadPast' -> Printed(ad, past)'.year = Printed(ad, past).year
    [] OTHER -> Earlier(Printed(ad, past), Printed(ad, past)')

(* "month & day" (src/CtCommon/src/ct_time.c:105): they are those of the   *)
(* date.                                                                   *)
MonthAndDayRight ==
  Printed(ad, past).month = date.month /\ Printed(ad, past).day = date.day
=============================================================================
