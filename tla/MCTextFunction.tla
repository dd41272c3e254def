--------------------------- MODULE MCTextFunction ---------------------------
(***************************************************************************)
(* Rows for TEXT: codes of every kind with numbers around their boundaries.*)
(***************************************************************************)
EXTENDS TextProperties

MCCondition == "[>5]" :> [op |-> "GT", limit |-> 5] @@ "[<=-3]" :> [op |-> "LE", limit |-> -3]
               @@ "[<0]" :> [op |-> "LT", limit |-> 0] @@ "[=2]" :> [op |-> "EQ", limit |-> 2]
               @@ "[<>2]" :> [op |-> "NE", limit |-> 2] @@ "[>=0]" :> [op |-> "GE", limit |-> 0]

Number(whole, num, den) == [neg |-> FALSE, whole |-> whole, num |-> num, den |-> den]
Minus(v) == [v EXCEPT !.neg = TRUE]
Both(S) == S \cup {Minus(v) : v \in S}

Rows(codes, numbers) == [code : codes, number : numbers]

\* Rounding up through all digits, one digit more or less than the places, zero, and
\* what rounds to zero.
Numbers == Both({Number(0, 0, 1), Number(0, 1, 4), Number(0, 1, 2), Number(0, 1, 200), Number(3, 0, 1),
                 Number(9, 249, 250), Number(12, 1, 4), Number(99, 1, 2), Number(999, 1, 2),
                 Number(1000, 0, 1), Number(1234, 1, 2), Number(100500, 0, 1), Number(1234567, 0, 1)})
NumberCodes == {
    <<"0">>, <<"#">>, <<"0", "0", "0", "0">>, <<"0", ".", "0">>, <<"#", ".", "#">>, <<"0", ".", "0", "#">>,
    <<"?", ".", "?", "?">>, <<"0", ".", "-", "-">>, <<"#", ".", "0", "#", "0">>, <<".", "0">>, <<"0", ".">>,
    <<"#", ",", "#", "#", "0">>, <<"#", ",", "#", "#", "#">>, <<"0", ",", "0">>, <<"0", ",", "0", "0", "0">>,
    <<"#", ",", "#", "#", "0", ".", "0">>, <<"0", "0", "0", "0", "0", ",", "0">>,
    <<"0", "%">>, <<"0", ".", "0", "%">>, <<"%", "0">>, <<"(", "0", ")">>, <<"0", " ", "0">>, <<"0", "-", "0", "0">>}

\* Digits written behind the point.
TemplateCodes == {<<"0", ".", "0", "5">>, <<"#", ".", "#", "5">>, <<"0", ".", "1", "2", "0">>}

\* Divided by thousands.
Thousands == Both({Number(n, 0, 1) : n \in {0, 3, 499, 500, 999, 1000, 1499, 999499, 999500, 12345678}})
ThousandCodes == {<<"0", ",">>, <<"#", ",">>, <<"0", ".", "0", ",">>, <<"#", ",", "#", "#", "0", ",">>}

\* Fractions of a half, a third and others, next to them, next to zero and one.
Parts == {Number(w, n, 48) : w \in {0, 7}, n \in 0 .. 47}
         \cup {Number(w, n, 97) : w \in {0, 12}, n \in {1, 13, 48, 49, 50, 96}}
         \cup {Number(2, n, 5000) : n \in {1, 2, 1667, 2499, 2501, 3333, 4998, 4999}}
         \cup {Number(1234567, 897, 1000), Number(3, 99123, 100000), Number(3, 12345, 100000), Number(3, 617, 5000)}
FractionCodes == {
    <<"#", " ", "?", "/", "?">>, <<"0", " ", "0", "/", "0">>, <<"?", "/", "?">>, <<"#", " ", "?", "?", "/", "?", "?">>,
    <<"#", " ", "?", "/", "2">>, <<"#", " ", "?", "?", "/", "1", "6">>, <<"0", "/", "5", "7">>, <<"#", " ", "#", "/", "1", "0", "0">>,
    <<"#", ",", "#", "#", "#", " ", "#", "#", "/", "#", "#">>, <<"#", " ", "?", "?", "?", "?", "/", "?", "?", "?", "?">>}
ThreePlaces == {<<"#", " ", "?", "?", "?", "/", "?", "?", "?">>}
FewParts == {Number(1234567, 897, 1000), Number(0, 355, 1130), Number(5, 1, 3), Number(0, 4999, 5000), Number(0, 1, 5000), Number(9, 0, 1)}

\* Powers of ten, next to them, and below one.
Powers == {Number(0, 0, 1), Number(1, 0, 1), Number(9, 1, 2), Number(9, 249, 250), Number(12, 1, 4), Number(99, 1, 2),
           Number(999, 3, 5), Number(12345, 0, 1), Number(99949, 0, 1), Number(99951, 0, 1), Number(1234567, 0, 1),
           Number(0, 1, 2), Number(0, 1, 10), Number(0, 1, 3), Number(0, 1, 1001), Number(0, 3, 25000), Number(0, 249, 250)}
ExponentCodes == {
    <<"0", ".", "0", "0", "E+", "0", "0">>, <<"0", ".", "0", "E-", "0">>, <<"#", ".", "#", "E+", "0", "0", "0">>,
    <<"0", "E+", "0">>, <<"#", "#", "0", ".", "0", "E+", "0">>, <<"0", ".", "E+", "0", "0">>, <<"0", "0", "E-", "0">>}

SectionCodes == {
    <<"0", ";", "-", "0">>, <<"0", ";", ";">>, <<"0", ";", "(", "0", ")", ";", "\\", "z">>, <<"0", ";", "0", ".", "0">>,
    <<"[>5]", "0", ";", "[=2]", "0", ".", "0">>, <<"[>5]", "0", ";", "[<=-3]", "0", ";", "\\", "r">>,
    <<"[<=-3]", "0", ";", "0", ".", "0">>, <<"[<0]", "0", ";", "0", ".", "0">>, <<"[<>2]", "0", ";", "\\", "t">>,
    <<"[>5]", "0">>, <<"[>=0]", "0", ".", "0", ";", "[<0]", "(", "0", ")">>, <<"[>5]", "0", ";", "0", ".", "0", ";", "#">>,
    <<"[Red]", "0", ";", "[>5]", "0">>, <<"x", ";", "y", ";", "z", ";", "w">>, <<"0", ";", "0", ";", "0", ";", "@">>,
    <<"@">>, <<"\\", "n", "_", "x">>, <<"]">>, <<";", "0">>, <<"General">>, <<"General", ";", "\\", "m", "0">>,
    <<"H", ";", "D">>, <<"0", "H">>, <<"#", "/">>, <<"0", "E+", "0", ";", "#", " ", "?", "/", "?">>}
SectionNumbers == Both({Number(0, 0, 1), Number(2, 0, 1), Number(3, 0, 1), Number(5, 1, 2), Number(0, 1, 2)})

\* A second before, half a second before and at midnight, noon, and other times.
Times8 == {Number(d, t, 864000) : d \in {0, 1, 60},
             t \in {0, 4, 5, 599, 35995, 36000, 431995, 432000, 863984, 863994, 863995, 863999}}
TimeCodes == {
    <<"H", ":", "MM">>, <<"HH", ":", "MM", ":", "SS">>, <<"[", "H", "]", ":", "MM">>, <<"[", "HH", "]", ":", "MM", ":", "SS">>,
    <<"[", "MM", "]", ":", "SS">>, <<"[", "SS", "]">>, <<"H", ":", "MM", ":", "SS", ".", "0">>, <<"[", "S", "]", ".", "0">>,
    <<"H", " ", "AM/PM">>, <<"H", ":", "M", ":", "S", " ", "A/P">>, <<"MM", ":", "SS">>, <<"SS", ".", "0">>, <<"H">>}

\* The ends of months and years, leap and common, and the first days of the calendar.
Days == {0, 1, 31, 59, 60, 61, 366, 36524, 36525, 36584, 36585, 44195, 44196, 44561, 73050, 73109, 73110}
Moments == Both({Number(d, t, 864000) : d \in Days, t \in {0, 300000, 863994, 863995}})
DateCodes == {<<"D", ".", "MMM", " ", "YY">>, <<"DDDD", ",", "MMMM">>, <<"D", " ", "H">>, <<"NNNN", "D">>,
              <<"YYYY", "-", "MM", "-", "DD", " ", "HH", ":", "MM", " ", "AM/PM">>}

\* The days around every new year of the years 1900 to 1932 and 1996 to 2108.
NewYears == {SerialDay(y, 1, 1) : y \in (1900 .. 1932) \cup (1996 .. 2108)}
WeekDays == {Number(n + d, 0, 1) : n \in NewYears, d \in -7 .. 7}

MCCalls == Rows(NumberCodes \cup TemplateCodes, Numbers) \cup Rows(ThousandCodes, Thousands) \cup Rows(SectionCodes, SectionNumbers)
           \cup Rows(FractionCodes, Both(Parts)) \cup Rows(ThreePlaces, Both(FewParts)) \cup Rows(ExponentCodes, Both(Powers))
           \cup Rows(TimeCodes, Both(Times8)) \cup Rows({DayTimeCode}, Moments)
           \cup Rows(DateCodes, {Number(d, 300000, 864000) : d \in Days}) \cup Rows({<<"WW">>}, WeekDays)
=============================================================================
