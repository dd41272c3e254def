----------------------------- MODULE DateOutput -----------------------------
(***************************************************************************)
(* ImpGetTimeOutput, ImpGetDateOutput and ImpGetDateTimeOutput: a serial   *)
(* number written as a clock time, a date or both.  Times are counted in   *)
(* tenths of a second.                                                     *)
(***************************************************************************)
EXTENDS FormatSections, NfCalendar

TenthsPerDay == 864000

Tenths(v) == v.num * (TenthsPerDay \div v.den)

\* A mutant: the time is cut off instead.
TruncatedTime(tenths, places) ==
    IF places = 0 THEN tenths \div 10 ELSE tenths * 10 ^ (places - 1)

\* math_round of a time to the decimals of the section.
RoundedTime(tenths, places) ==
    IF places = 0 THEN (tenths + 5) \div 10 ELSE tenths * 10 ^ (places - 1)

Seconds(time, places) == time \div 10 ^ places
SecondParts(time, places) == IF places = 0 THEN <<>> ELSE Padded(time % 10 ^ places, places)

\* Hours, minutes and seconds; in a bracketed time the bracketed unit (group) takes
\* everything above it.
ClockOf(seconds, section) ==
    CASE ~section.thousand -> [hour |-> (seconds \div 3600) % 24, minute |-> (seconds % 3600) \div 60,
                               second |-> seconds % 60]
      [] section.group = 3 -> [hour |-> 0, minute |-> 0, second |-> seconds]
      [] section.group = 2 -> [hour |-> 0, minute |-> seconds \div 60, second |-> seconds % 60]
      [] section.group = 1 -> [hour |-> seconds \div 3600, minute |-> (seconds % 3600) \div 60,
                               second |-> seconds % 60]

\* AM/PM: the hour on a twelve hour face.
Morning(clock) == clock.hour < 12

FaceOf(clock, section) ==
    [clock EXCEPT !.hour = IF ~section.meridiem THEN @
                           ELSE IF @ = 0 THEN 12 ELSE IF @ > 12 THEN @ - 12 ELSE @]

Literals == {"STRING", "DATESEP", "TIMESEP", "TIME100SECSEP"}

\* What a keyword of the time of day shows.
ClockField(key, clock, face) ==
    CASE key = "H"   -> Shown(face.hour)
      [] key = "HH"  -> Padded(face.hour, 2)
      [] key = "MI"  -> Shown(face.minute)
      [] key = "MMI" -> Padded(face.minute, 2)
      [] key = "S"   -> Shown(face.second)
      [] key = "SS"  -> Padded(face.second, 2)
      [] key = "AM/PM" -> IF Morning(clock) THEN <<"A", "M">> ELSE <<"P", "M">>
      [] key = "A/P"   -> IF Morning(clock) THEN <<"a">> ELSE <<"p">>

\* getDisplayString
DateField(key, date) ==
    CASE key = "D"     -> Shown(date.day)
      [] key = "DD"    -> Padded(date.day, 2)
      [] key \in {"DDD", "NN", "AAA"}   -> <<DayName(DayNames, date)>>
      [] key \in {"DDDD", "NNN", "AAAA"} -> <<DayName(LongDayNames, date)>>
      [] key = "NNNN"  -> <<DayName(LongDayNames, date), ",", " ">>
      [] key = "M"     -> Shown(date.month)
      [] key = "MM"    -> Padded(date.month, 2)
      [] key = "MMM"   -> <<MonthNames[date.month]>>
      [] key = "MMMM"  -> <<LongMonthNames[date.month]>>
      [] key = "MMMMM" -> <<MonthLetters[date.month]>>
      [] key = "YY"    -> IF date.year < 100 THEN Shown(date.year) ELSE Padded(date.year % 100, 2)
      [] key = "YYYY"  -> Shown(date.year)
      [] key = "WW"    -> Shown(GetWeekOfYear(date))

\* One symbol; used counts the decimals of the seconds shown so far.
ClockSymbol(acc, sym, clock, section, parts) ==
    CASE sym.t \in Literals -> [acc EXCEPT !.str = @ \o sym.s]
      [] sym.t = "BLANK" -> [acc EXCEPT !.str = Append(@, " ")]
      [] sym.t = "DIGIT" /\ acc.used < Len(parts) ->
           [str |-> Append(acc.str, parts[acc.used + 1]), used |-> acc.used + 1]
      [] sym.t \in TimeKeys \cup {"MI", "MMI"} ->
           [acc EXCEPT !.str = @ \o ClockField(sym.t, clock, FaceOf(clock, section))]
      [] OTHER -> acc

DateTimeSymbolText(acc, sym, date, clock, section, parts) ==
    IF sym.t \in DateKeys THEN [acc EXCEPT !.str = @ \o DateField(sym.t, date)]
    ELSE ClockSymbol(acc, sym, clock, section, parts)

Written(section, Symbol(_, _)) ==
    FoldLeft(Symbol, [str |-> <<>>, used |-> 0], section.sy).str

\* ImpGetTimeOutput.  Without brackets the date is cut off, and a negative time of
\* the first section is counted back from midnight; with brackets it has a sign,
\* "not -00:00:00".
TimeText(v, section, ix) ==
    LET sign  == Negative(v) /\ ix = 1
        day   == Tenths(v)
        exact == CASE section.thousand -> v.whole * TenthsPerDay + day
                   [] sign             -> TenthsPerDay - day
                   [] OTHER            -> day
        time  == RoundedTime(exact, section.post)
        clock == ClockOf(Seconds(time, section.post), section)
        parts == SecondParts(time, section.post)
        text  == Written(section, LAMBDA acc, sym : ClockSymbol(acc, sym, clock, section, parts))
    IN IF sign /\ time /= 0 /\ section.thousand THEN <<"-">> \o text ELSE text

\* ImpGetDateOutput: the time of day is not rounded into the date.
DateText(v, section) ==
    LET date == DateOfSerial(v)
    IN Written(section, LAMBDA acc, sym :
           IF sym.t \in DateKeys THEN [acc EXCEPT !.str = @ \o DateField(sym.t, date)]
           ELSE IF sym.t \in Literals THEN [acc EXCEPT !.str = @ \o sym.s]
           ELSE IF sym.t = "BLANK" THEN [acc EXCEPT !.str = Append(@, " ")] ELSE acc)

\* The whole number below a serial, and the time of day above it.
DayBelow(v) == IF ~v.neg THEN v.whole ELSE IF v.num > 0 THEN -v.whole - 1 ELSE -v.whole
TimeAbove(v) == IF v.neg /\ v.num > 0 THEN TenthsPerDay - Tenths(v) ELSE Tenths(v)
SerialOf(day) == [neg |-> day < 0, whole |-> IF day < 0 THEN -day ELSE day, num |-> 0, den |-> 1]

\* ImpGetDateTimeOutput: a time that rounds up to midnight takes the next day's date.
DateTimeText(v, section) ==
    LET rounded == RoundedTime(TimeAbove(v), section.post)
        midnight == Seconds(rounded, section.post) >= 86400
        time  == IF midnight THEN 0 ELSE rounded
        date  == DateOfSerial(IF midnight THEN SerialOf(DayBelow(v) + 1) ELSE v)
        clock == ClockOf(Seconds(time, section.post), section)
        parts == SecondParts(time, section.post)
    IN Written(section, LAMBDA acc, sym : DateTimeSymbolText(acc, sym, date, clock, section, parts))
=============================================================================
