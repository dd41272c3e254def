----------------------------- MODULE NfCalendar -----------------------------
(***************************************************************************)
(* The calendar of the number formatter: Date (day counts from 1.1.0001),  *)
(* DateTime and Calendar.  The null date is 30.12.1899; a serial number is *)
(* the days since then.  Weeks start on Monday, and the first has at least *)
(* four days (the default arguments of GetWeekOfYear).                     *)
(***************************************************************************)
EXTENDS Integers, Sequences

MaxDays == 3636532               \* MAX_DAYS
FirstDate == [day |-> 1, month |-> 1, year |-> 0]
LastDate == [day |-> 31, month |-> 12, year |-> 9999]
NullDate == [day |-> 30, month |-> 12, year |-> 1899]

ImpIsLeapYear(y) == (y % 4 = 0 /\ y % 100 /= 0) \/ y % 400 = 0

MonthLengths == <<31, 28, 31, 30, 31, 30, 31, 31, 30, 31, 30, 31>>
DaysInMonth(m, y) == MonthLengths[m] + (IF m = 2 /\ ImpIsLeapYear(y) THEN 1 ELSE 0)
DaysInYear(y) == IF ImpIsLeapYear(y) THEN 366 ELSE 365

DaysBeforeMonth(m, y) ==
    LET before[i \in 1 .. 12] == IF i = 1 THEN 0 ELSE before[i - 1] + DaysInMonth(i - 1, y)
    IN  before[m]

\* The divisions are cut off towards zero, which is another number for the year 0.
LeapDaysBefore(y) == IF y = 0 THEN 0 ELSE (y - 1) \div 4 - (y - 1) \div 100 + (y - 1) \div 400
DaysBeforeYear(y) == (y - 1) * 365 + LeapDaysBefore(y)

DateToDays(date) == DaysBeforeYear(date.year) + DaysBeforeMonth(date.month, date.year) + date.day

\* The search starts at n / 365 and steps, down or up, until the rest of the days
\* fits the year; the years are those it can reach.
FitsYear(n, y) == n - DaysBeforeYear(y) \in 1 .. DaysInYear(y)
YearOf(n) ==
    IF FitsYear(n, n \div 365) THEN n \div 365
    ELSE CHOOSE y \in (n \div 365) - 8 .. (n \div 365) + 1 : y >= 0 /\ FitsYear(n, y)

DaysToDate(n) ==
    LET y    == YearOf(n)
        rest == n - DaysBeforeYear(y)
        m    == CHOOSE i \in 1 .. 12 : /\ DaysBeforeMonth(i, y) < rest
                                       /\ rest <= DaysBeforeMonth(i, y) + DaysInMonth(i, y)
    IN [day |-> rest - DaysBeforeMonth(m, y), month |-> m, year |-> y]

\* Date::operator+= and operator--
AddDays(date, days) ==
    LET n == DateToDays(date) + days
    IN IF n > MaxDays THEN LastDate ELSE IF n <= 0 THEN FirstDate ELSE DaysToDate(n)

\* A mutant: the day is not stepped back.
SameDay(date) == date

PreviousDay(date) ==
    IF DateToDays(date) > 1 THEN DaysToDate(DateToDays(date) - 1) ELSE date

\* DateTime::operator+=: whole days first, towards zero, then the time of day; a
\* negative time steps back to the day before.
DateOfSerial(v) ==
    LET moved == AddDays(NullDate, IF v.neg THEN -v.whole ELSE v.whole)
    IN IF v.neg /\ v.num > 0 THEN PreviousDay(moved) ELSE moved

GetDayOfWeek(date) == (DateToDays(date) - 1) % 7          \* Monday is 0
GetDayOfYear(date) == DaysBeforeMonth(date.month, date.year) + date.day

\* GetWeekOfYear before its last test: Monday to Thursday the year starts in its
\* first week, otherwise the first days belong to the last week of the year before.
EarlyWeek(date) ==
    LET first == GetDayOfWeek([day |-> 1, month |-> 1, year |-> date.year])
        passed == GetDayOfYear(date) - 1 + first
        old == CASE first = 4 -> 53
                 [] first = 5 /\ ImpIsLeapYear(date.year - 1) -> 53
                 [] OTHER -> 52
    IN IF first < 4 THEN 1 + passed \div 7
       ELSE IF passed > 6 THEN passed \div 7 ELSE old

StartsInOldWeek(date) ==
    LET first == GetDayOfWeek([day |-> 1, month |-> 1, year |-> date.year])
    IN first >= 4 /\ GetDayOfYear(date) - 1 + first <= 6

\* "next x_Sunday == first x_Sunday in the new year == same week"
GetWeekOfYear(date) ==
    LET sunday == DaysToDate(DateToDays(date) + 6 - GetDayOfWeek(date))
    IN IF EarlyWeek(date) = 53 /\ ~StartsInOldWeek(date) THEN EarlyWeek(sunday) ELSE EarlyWeek(date)

MonthNames == <<"Jan", "Feb", "Mar", "Apr", "May", "Jun", "Jul", "Aug", "Sep", "Oct", "Nov", "Dec">>
LongMonthNames == <<"January", "February", "March", "April", "May", "June", "July", "August",
                    "September", "October", "November", "December">>
DayNames == <<"Sun", "Mon", "Tue", "Wed", "Thu", "Fri", "Sat">>
LongDayNames == <<"Sunday", "Monday", "Tuesday", "Wednesday", "Thursday", "Friday", "Saturday">>
MonthLetters == <<"J", "F", "M", "A", "M", "J", "J", "A", "S", "O", "N", "D">>

\* setDateTime stores the day of the week counted from Monday as 1, and the names
\* start with Sunday.
DayName(names, date) == names[((GetDayOfWeek(date) + 1) % 7) + 1]
=============================================================================
