--------------------------- MODULE TextProperties ---------------------------
(***************************************************************************)
(* What TEXT promises of the text it returns.  Each property reads the     *)
(* text back, or the format code as it was written, with definitions of    *)
(* its own: none uses the sections, the digits or the calendar the code    *)
(* computes with.                                                          *)
(***************************************************************************)
EXTENDS TextFunction, CivilCalendar

Done == pc = "done"

CountIn(s, S) == Cardinality({i \in DOMAIN s : s[i] \in S})
FirstOf(s, c) == Min({i \in DOMAIN s : s[i] = c} \cup {Len(s) + 1})
Before(s, c) == SubSeq(s, 1, FirstOf(s, c) - 1)
After(s, c) == SubSeq(s, FirstOf(s, c) + 1, Len(s))
DigitsIn(s) == SelectSeq(s, IsDigit)

(***************************************************************************)
(* Numbers.                                                                *)
(***************************************************************************)
Places == {"0", "#", "?"}
PlainNumber(code) ==
    /\ CountIn(code, Places) > 0
    /\ \A a \in Range(code) : a \in Places \cup {",", ".", "%", "-", "(", ")", " "}
    /\ CountIn(code, {"."}) <= 1

\* Decimals, percent signs and trailing commas of a one-section code as written.
DecimalsOf(code) ==
    CountIn(After(code, "."), Places \cup {"-"})
CommasBehind(code) ==
    LET last == Max({0} \cup {i \in DOMAIN code : code[i] \in Places \cup {"."}})
    IN CountIn(SubSeq(code, last + 1, Len(code)), {","})

DigitsBack(s, places) ==
    LET parts == DigitsIn(After(s, "."))
    IN ValueOf(DigitsIn(Before(s, "."))) * 10 ^ places
       + ValueOf(parts) * 10 ^ (places - Len(parts))

\* A number with decimals, scaled as the code asks, and with the number's sign: the
\* digits placed from back to front between literals, separators and dropped zeros
\* are all there, rounded at the last of them.
NumberReadsBack(code, v) ==
    LET places == DecimalsOf(code)
        n      == (v.whole * v.den + v.num) * 10 ^ places * 100 ^ CountIn(code, {"%"})
        d      == v.den * 1000 ^ CommasBehind(code)
        back   == DigitsBack(text, places)
    IN /\ 2 * (back * d - n) \in -d .. d
       /\ back > 0 => (text[1] = "-") = Negative(v)

\* The numbers in a text.
DigitRuns(s) ==
    LET Starts == {i \in DOMAIN s : IsDigit(s[i]) /\ (i = 1 \/ ~IsDigit(s[i - 1]))}
        Ends   == {i \in DOMAIN s : IsDigit(s[i]) /\ (i = Len(s) \/ ~IsDigit(s[i + 1]))}
        From(k) == CHOOSE i \in Starts : Cardinality({j \in Starts : j < i}) = k - 1
        To(k)   == CHOOSE i \in Ends : Cardinality({j \in Ends : j < i}) = k - 1
    IN [k \in 1 .. Cardinality(Starts) |-> ValueOf(SubSeq(s, From(k), To(k)))]

\* A fraction: with one, two or three places for the denominator none that fits into
\* them is nearer; with a denominator in the code the numerator is the nearest; with
\* more places the code gives up to a hundredth away.  What is shown as zero has no
\* sign.
PlainFraction(code) ==
    /\ CountIn(code, {"/"}) = 1 /\ CountIn(After(code, "/"), Places \cup Digits) > 0
    /\ \A a \in Range(code) : a \in Places \cup Digits \cup {" ", ",", "/"}

Distance(n, m) == IF n < m THEN m - n ELSE n - m

\* <<whole, numerator, denominator>>.  A fraction of zero has no stroke; the zeros of
\* the code, those of its denominator among them, still show.
FractionBack ==
    LET runs == DigitRuns(SelectSeq(text, LAMBDA c : c /= ","))
    IN CASE CountIn(text, {"/"}) = 0 /\ Range(Tail(runs)) \subseteq {0} -> <<runs[1], 0, 1>>
         [] CountIn(text, {"/"}) = 1 /\ Len(runs) = 2 -> <<0>> \o runs
         [] CountIn(text, {"/"}) = 1 /\ Len(runs) = 3 -> runs

FractionReadsBack(code, v) ==
    LET below == After(code, "/")
        f     == FractionBack
        \* numerator of what the text shows above the whole part of the number
        p     == (f[1] - v.whole) * f[3] + f[2]
        away  == Distance(p * v.den, v.num * f[3])          \* times den * denominator
        HasNearer(q) == \E r \in {(v.num * q) \div v.den, (v.num * q) \div v.den + 1} :
                        Distance(r * v.den, v.num * q) * f[3] < away * q
    IN /\ CASE CountIn(below, Digits) > 0 -> ~HasNearer(ValueOf(DigitsIn(below)))
             [] CountIn(below, Places) <= 3 -> /\ f[3] < 10 ^ CountIn(below, Places)
                                             /\ \A q \in 1 .. 10 ^ CountIn(below, Places) - 1 : ~HasNearer(q)
             [] OTHER -> away <= (f[3] * v.den) \div 100
       /\ (text[1] = "-") = (Negative(v) /\ f[1] + f[2] > 0)

\* A number with an exponent: the mantissa has as many digits as the code has places,
\* the first of them not zero, and the number is within half a unit of the last.
PlainExponent(code) ==
    /\ CountIn(code, Exponents) = 1
    /\ \A a \in Range(code) : a \in Places \cup Exponents \cup {"."}

ExponentReadsBack(code, v) ==
    LET mark     == CHOOSE a \in Exponents : a \in Range(code)
        places   == CountIn(After(Before(code, mark), "."), Places)
        digits   == CountIn(Before(code, mark), Places)
        mantissa == ValueOf(DigitsIn(Before(text, "E")))
        size     == ValueOf(DigitsIn(After(text, "E")))
        scale    == (IF After(text, "E")[1] = "-" THEN -size ELSE size) - places
        n        == v.whole * v.den + v.num
        down     == 10 ^ Max({0, -scale})
        up       == 10 ^ Max({0, scale}) * v.den
    IN /\ 2 * Distance(n * down, mantissa * up) <= up
       /\ ~Zero(v) => mantissa \in 10 ^ (digits - 1) .. 10 ^ digits - 1
       /\ mantissa > 0 => (text[1] = "-") = Negative(v)
       /\ After(text, "E")[1] = "+" => mark = "E+"

\* The text of a number, read as a number, is one nearest to it that the code has
\* places for, with its sign.
ValueIsShown ==
    Done => /\ PlainNumber(call.code) => NumberReadsBack(call.code, call.number)
            /\ PlainFraction(call.code) => FractionReadsBack(call.code, call.number)
            /\ PlainExponent(call.code) => ExponentReadsBack(call.code, call.number)

\* A comma between digit places asks for groups of three: the separators of the
\* text stand before every third digit left of the point, and nowhere else, however
\* many digits the number has more, or fewer, than the code has places.
Grouping(code) ==
    \E i \in 2 .. Len(code) - 1 : code[i] = "," /\ code[i - 1] \in Places /\ code[i + 1] \in Places

GroupsOfThree ==
    (Done /\ PlainNumber(call.code) /\ Grouping(call.code)) =>
        LET whole == Before(text, ".")
            Behind(i) == Len(DigitsIn(SubSeq(whole, i, Len(whole))))
        IN \A i \in DOMAIN whole :
               /\ whole[i] = "," => i > 1 /\ IsDigit(whole[i - 1]) /\ Behind(i) % 3 = 0 /\ Behind(i) > 0
               /\ IsDigit(whole[i]) /\ i > 1 /\ IsDigit(whole[i - 1]) => Behind(i) % 3 /= 0

(***************************************************************************)
(* Sections.                                                               *)
(***************************************************************************)
\* The sections as written, with their conditions; a last one left empty is none.
Breaks(code) == {i \in 2 .. Len(code) : code[i] = ";"}      \* one at the start is shown
SectionCount(code) == Cardinality(Breaks(code)) + (IF Last(code) = ";" THEN 0 ELSE 1)

PartOf(code, i) ==
    LET Part(p) == Cardinality({b \in Breaks(code) : b < p}) + 1
    IN {p \in DOMAIN code \ Breaks(code) : Part(p) = i}

Given(code, i) == {code[p] : p \in PartOf(code, i)} \cap DOMAIN Condition
Satisfies(v, conditions) == \A c \in conditions : ImpCheckCondition(v, Condition[c].limit, Condition[c].op)

\* Without conditions: one section for all numbers, two for positive (and zero) and
\* negative, three for positive, negative and zero.  A condition replaces the rule of
\* its section, and a number that satisfies none is shown with the next one.
Expected(code, v) ==
    LET n      == SectionCount(code)
        First  == IF Given(code, 1) /= {} THEN Satisfies(v, Given(code, 1))
                  ELSE CASE n = 1 -> TRUE
                         [] n = 2 /\ Given(code, 2) = {} -> ~Negative(v)
                         [] OTHER -> Above(v, 0)
        Second == IF Given(code, 2) /= {} THEN Satisfies(v, Given(code, 2))
                  ELSE n <= 2 \/ Negative(v)
    IN IF First THEN 1 ELSE IF Second THEN 2 ELSE 3

Chooses == pc \in {"show", "done", "error"} /\ format.type /= "TEXT"

ChosenAsWritten ==
    (Chooses /\ ~format.failed) => ix = Expected(call.code, call.number)

(***************************************************************************)
(* Dates and times.                                                        *)
(***************************************************************************)
Floored(v) == [day |-> DayOf(v), time |-> TimeAbove(v)]

\* The keywords of a code that is a time only: hours, minutes, seconds, and the
\* tenths a zero stands for, each with its size in tenths of a second.
UnitKeys == HourKeys \cup MinuteKeys \cup SecondKeys
SizeOf(a) == CASE a \in HourKeys -> 36000 [] a \in MinuteKeys -> 600 [] a \in SecondKeys -> 10 [] a = "0" -> 1
UnitsOf(code) ==
    LET keys == SelectSeq(code, LAMBDA a : a \in UnitKeys \cup {"0"})
    IN [i \in DOMAIN keys |-> SizeOf(keys[i])]
PlainTime(code) ==
    /\ CountIn(code, UnitKeys \ MinuteKeys) > 0
    /\ \A a \in Range(code) : a \in UnitKeys \cup MeridiemKeys \cup {"0", ":", ".", "[", "]", " "}
    /\ \A i \in 2 .. Len(UnitsOf(code)) : UnitsOf(code)[i] < UnitsOf(code)[i - 1]

Wraps(size) == CASE size = 36000 -> 864000 [] size = 600 -> 36000 [] size = 10 -> 600

Hours(runs, code) ==          \* the first field, off its twelve hour face
    IF CountIn(code, MeridiemKeys) = 0 THEN runs[1]
    ELSE (runs[1] % 12) + (IF CountIn(text, {"P", "p"}) > 0 THEN 12 ELSE 0)

TimeBack(code) ==
    LET runs  == DigitRuns(text)
        units == UnitsOf(code)
    IN Hours(runs, code) * units[1]
       + FoldSet(LAMBDA i, n : n + runs[i] * units[i], 0, 2 .. Len(units))

\* A clock shows the time of day, or in brackets the signed total, rounded to its
\* seconds (or tenths) and cut off at its last field: a carry into the minutes and
\* hours, noon, midnight and the time before the null date included.
ClockReadsBack ==
    (Done /\ PlainTime(call.code)) =>
        LET code    == call.code
            v       == call.number
            units   == UnitsOf(code)
            bracket == CountIn(code, {"["}) > 0
            exact   == IF bracket THEN v.whole * 864000 + Tenths(v) ELSE Floored(v).time
            rounded == IF CountIn(code, {"0"}) > 0 THEN exact ELSE ((exact + 5) \div 10) * 10
            due     == IF bracket THEN rounded ELSE rounded % Wraps(units[1])
        IN /\ Len(DigitRuns(text)) = Len(units)
           /\ due - TimeBack(code) \in 0 .. Last(units) - 1
           /\ (text[1] = "-") = (bracket /\ Negative(v) /\ rounded > 0)

\* A date shown with its time of day is the same moment, to half a second: when the
\* time rounds up to midnight the date moves on with it, in every month and year, and
\* before the null date as after it.
DayTimeCode == <<"YYYY", "-", "MM", "-", "DD", " ", "HH", ":", "MM", ":", "SS">>

DateTimeReadsBack ==
    (Done /\ call.code = DayTimeCode) =>
        LET r   == DigitRuns(text)
            day == SerialDay(r[1], r[2], r[3]) - Floored(call.number).day
            tenths == r[4] * 36000 + r[5] * 600 + r[6] * 10
        IN /\ day \in {0, 1}
           /\ day * 864000 + tenths - Floored(call.number).time \in -5 .. 5

\* The week of the year is the one its Thursday has in the Thursday's own year.
WeekIsIso ==
    (Done /\ call.code = <<"WW">>) =>
        DigitRuns(text)[1] = IsoWeek(DayOf(call.number))

(***************************************************************************)
(* What the code says of itself and does not keep.                         *)
(***************************************************************************)
\* "not -0.00" (ImpGetNumberOutput): a number shown with zeros only has no sign.
\* Violated: the zeros are counted against the length of the text plus one.
NotMinusZero ==
    (Done /\ PlainNumber(call.code) /\ text /= <<>>) =>
        (text[1] = "-" => \E c \in Range(text) : IsDigit(c) /\ c /= "0")
=============================================================================
