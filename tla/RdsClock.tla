------------------------------ MODULE RdsClock ------------------------------
(***************************************************************************)
(* The date and the time in a 4A group: rds_generate_group_4 makes a day   *)
(* number with the formula of Annex G of the standard, and an offset from  *)
(* the hours of two clocks.                                                *)
(*                                                                         *)
(* A time is a record: the year since 1900, the month from 1, the day, the *)
(* hour and the minute in UTC, and how many half hours the zone is ahead.  *)
(***************************************************************************)
EXTENDS Integers

\* The times of time() for which the formula is meant: from 1970 to 28 February 2100.
Moment(t) ==
    /\ t.year \in 70..200 /\ t.mon \in 1..12 /\ t.day \in 1..31
    /\ t.year = 200 => t.mon <= 2
    /\ t.hour \in 0..23 /\ t.min \in 0..59 /\ t.zone \in -24..28

\* Variant: January and February are months of this year.
MjdNoLeapDay(t) == 14956 + t.day + (t.year * 1461) \div 4 + ((t.mon + 1) * 306001) \div 10000

\* Annex G's formula; 365.25 and 30.6001 are products of integers here.
Mjd(t) ==
    LET leap_day == IF t.mon <= 2 THEN 1 ELSE 0
    IN 14956 + t.day + ((t.year - leap_day) * 1461) \div 4
       + ((t.mon + 1 + leap_day * 12) * 306001) \div 10000

\* Minutes from midnight in UTC to the time on a clock zone half hours ahead.
LocalMinutes(t) == t.hour * 60 + t.min + t.zone * 30

\* localtime: the hour on that clock.
LocalHour(t) == (LocalMinutes(t) % 1440) \div 60

\* Both clocks show the same day, and whole hours apart.
SameDay(t) == t.zone % 2 = 0 /\ LocalMinutes(t) \in 0..1439

\* The Gregorian calendar, for years since 1900: leap years, and how many there were before a
\* year.
Leap(y) == ((y + 1900) % 4 = 0 /\ (y + 1900) % 100 # 0) \/ (y + 1900) % 400 = 0
LeapsBefore(y) == (y + 1899) \div 4 - (y + 1899) \div 100 + (y + 1899) \div 400

\* The days before each month of a common year.
MonthStart == <<0, 31, 59, 90, 120, 151, 181, 212, 243, 273, 304, 334>>

\* Days since 17 November 1858 in that calendar, which is day 678576 of one whose day 1 is
\* 1 January of the year 1: the years before this one and their leap days, the months before
\* this one.
DayNumber(t) ==
    (t.year + 1899) * 365 + LeapsBefore(t.year) + MonthStart[t.mon]
    + (IF t.mon > 2 /\ Leap(t.year) THEN 1 ELSE 0) + t.day - 678576
=============================================================================
