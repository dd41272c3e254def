---------------------------- MODULE CivilCalendar ----------------------------
(***************************************************************************)
(* The Gregorian calendar and the weeks of ISO 8601, by other formulas than*)
(* the formatter's: what its dates are compared with.                      *)
(***************************************************************************)
EXTENDS Integers

\* Days since 30.12.1899 of a date, counted in years that start in March.
MarchDays(y, m, d) ==
    LET year  == IF m <= 2 THEN y - 1 ELSE y
        month == (m + 9) % 12
    IN 365 * year + year \div 4 - year \div 100 + year \div 400 + (153 * month + 2) \div 5 + d
SerialDay(y, m, d) == MarchDays(y, m, d) - MarchDays(1899, 12, 30)

\* The day of a serial number: the whole number below it.
DayOf(v) == IF ~v.neg THEN v.whole ELSE IF v.num > 0 THEN -v.whole - 1 ELSE -v.whole

\* The week a day is in is the one its Thursday has in the Thursday's own year; the
\* null date was a Saturday.
LastYear == 9999
ThursdayOf(day) == day - ((day + 5) % 7) + 3
IsoWeek(day) ==
    LET year == CHOOSE y \in 1 .. LastYear : /\ SerialDay(y, 1, 1) <= ThursdayOf(day)
                                         /\ ThursdayOf(day) < SerialDay(y + 1, 1, 1)
    IN (ThursdayOf(day) - SerialDay(year, 1, 1)) \div 7 + 1
=============================================================================
