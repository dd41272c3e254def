---------------------------- MODULE NumberOutput ----------------------------
(***************************************************************************)
(* SvNumberformat::ImpGetNumberOutput and ImpNumberFillWithThousands: a    *)
(* number is written from back to front into the symbols of its section.   *)
(* str is the text so far and k the position in it (the source's sStr, k). *)
(***************************************************************************)
EXTENDS FormatSections

Inserted(str, k, text) == SubSeq(str, 1, k) \o text \o SubSeq(str, k + 1, Len(str))
Erased(str, k) == SubSeq(str, 1, k - 1) \o SubSeq(str, k + 1, Len(str))

\* ImpGetOutputStandard: two decimals at most, without trailing zeros.
StandardDecimals == 2

TrimZeros(digits) ==
    SubSeq(digits, 1, Max({0} \cup {i \in DOMAIN digits : digits[i] /= "0"}))

StandardOf(v) ==
    LET r == Rounded(v, StandardDecimals)
        decimals == TrimZeros(Padded(r.parts, StandardDecimals))
    IN Shown(r.whole) \o (IF decimals = <<>> THEN <<>> ELSE <<Point>> \o decimals)

\* doubleToString tests fabs(x) < 0.0 for the sign, so it never sees one: the rounded
\* magnitude is cut into digits below zero, the last of them downwards, and each is
\* printed as the character that far below "0".
BelowZero == <<"/", ".", "-", ",", "+", "*", ")", "(", "'", "&">>
DigitBelow(n) == CASE n = 0 -> "0" [] n \in DOMAIN BelowZero -> BelowZero[n] [] OTHER -> "unprintable"

SignlessDigits(v) ==
    LET scaled == (v.whole * v.den + v.num) * 200 - v.den    \* 200 * den times (|v| - 0.005)
        unit   == 200 * v.den
        first  == scaled \div unit
        second == ((scaled % unit) * 10) \div unit
        rest   == ((scaled % unit) * 10) % unit
        third  == (rest * 10 + unit - 1) \div unit
    IN IF scaled <= 0 THEN <<"0">>
       ELSE <<DigitBelow(first), Point>> \o TrimZeros(<<DigitBelow(second), DigitBelow(third)>>)

Standard(v) == IF Negative(v) THEN SignlessDigits(v) ELSE StandardOf(v)

\* The digits to be placed: scaled for percent and for the thousands divided by,
\* rounded to the decimals of the section, without leading zeros or a point.  The
\* erasing of zeros stops at the last character: a number that only rounds to zero
\* keeps one, where zero itself has no digit.
Hundredfold(v, section) == IF section.type = "PERCENT" THEN Times(v, 100) ELSE v

Scaled(v, section) ==
    FoldLeft(LAMBDA w, i : Thousandth(w), Hundredfold(v, section), [i \in 1 .. section.group |-> i])

PlacedDigits(v, section) ==
    LET scaled == Scaled(v, section)
        r      == Rounded(scaled, section.post)
    IN CASE section.post > 0 -> Padded(r.whole, 0) \o Padded(r.parts, section.post)
         [] section.post = 0 /\ Zero(scaled) -> <<>>
         [] OTHER -> Shown(r.whole)

WholeNumber(v, section) == section.post > 0 /\ Rounded(Scaled(v, section), section.post).parts = 0

General1000(section) == section.group = StandardInFormat

(***************************************************************************)
(* Decimal places: the symbols behind the decimal separator, last first.   *)
(* Digits written in the code have no place of their own in the number: a  *)
(* code with more of them than the number has digits runs off its front    *)
(* (overrun: sStr.at throws).                                              *)
(***************************************************************************)
DecimalPlace(acc, c, integer) ==
    LET k        == acc.k
        trailing == acc.trailing /\ acc.str[k] = "0"
        filled   == acc.filled \/ (trailing /\ c \in {"0", "-", "?"})
        str      == CASE ~trailing -> acc.str
                      [] c = "-" /\ integer -> [acc.str EXCEPT ![k] = "-"]
                      [] c = "?" -> [acc.str EXCEPT ![k] = " "]
                      [] c \notin {"0", "-"} /\ ~acc.filled -> Erased(acc.str, k)
                      [] OTHER -> acc.str
    IN IF k = 0 THEN [acc EXCEPT !.overrun = TRUE]
       ELSE [acc EXCEPT !.str = str, !.k = k - 1, !.trailing = trailing, !.filled = filled]

DecimalSymbol(acc, sym, section, integer) ==
    CASE sym.t \in {"STRING", "PERCENT"} -> [acc EXCEPT !.str = Inserted(@, acc.k, sym.s)]
      [] sym.t = "BLANK" -> [acc EXCEPT !.str = Inserted(@, acc.k, <<" ">>)]
      [] sym.t = "THSEP" /\ section.group = 0 -> [acc EXCEPT !.str = Inserted(@, acc.k, sym.s)]
      [] sym.t = "DIGIT" -> DecimalPlace(acc, sym.s[1], integer)
      [] OTHER -> acc

DecimalSeparatorAt(section) ==
    Max({1} \cup {j \in DOMAIN section.sy : section.sy[j].t = "DECSEP"})

Decimals(str, section, integer) ==
    LET start  == [str |-> str, k |-> Len(str), trailing |-> TRUE, filled |-> FALSE, overrun |-> FALSE]
        behind == SubSeq(section.sy, DecimalSeparatorAt(section) + 1, Len(section.sy))
    IN IF section.post = 0 THEN start
       ELSE FoldRight(LAMBDA sym, acc : DecimalSymbol(acc, sym, section, integer), behind, start)

(***************************************************************************)
(* ImpNumberFillWithThousands: the symbols before the decimals.  lead      *)
(* counts literals put before the number, count the digits passed, next    *)
(* is where the grouping wants its next separator.                         *)
(***************************************************************************)
\* A mutant: the group is not advanced after its first separator.
DigitFillOnce(acc, start, section) ==
    LET Fill(a, i) == [a EXCEPT !.str = IF a.count = a.next THEN Inserted(@, a.k, <<Separator>>) ELSE @,
                                !.count = @ + 1, !.k = @ - 1]
    IN IF section.thousand THEN FoldLeft(Fill, acc, [i \in 1 .. acc.k - start |-> i])
       ELSE [acc EXCEPT !.k = start]

\* ImpDigitFill: the digits the section has no place for, grouped if it groups.
DigitFill(acc, start, section) ==
    LET places == [i \in 1 .. acc.k - start |-> i]
        Fill(a, i) == LET due == a.count = a.next
                      IN [a EXCEPT !.str   = IF due THEN Inserted(@, a.k, <<Separator>>) ELSE @,
                                   !.next  = IF due THEN @ + GroupSize ELSE @,
                                   !.count = @ + 1, !.k = @ - 1]
    IN IF section.thousand THEN FoldLeft(Fill, acc, places) ELSE [acc EXCEPT !.k = start]

WholeDigit(acc, c, section) ==
    LET placed == IF acc.k > 0 THEN [acc EXCEPT !.k = @ - 1, !.count = @ + 1]
                  ELSE [acc EXCEPT !.count = @ + 1,
                                   !.str = (CASE c = "0" -> <<"0">> [] c = "?" -> <<" ">>
                                              [] OTHER -> <<>>) \o @]
    IN IF placed.count = section.pre /\ placed.k > 0 THEN DigitFill(placed, 0, section) ELSE placed

\* Separators of a divided number are kept when digits or nothing of the number
\* are around them: not those that do the dividing.
KeepsSeparator(acc, section, j) ==
    \/ acc.does
    \/ /\ j < Len(section.sy)
       /\ \/ j = 1
          \/ section.sy[j - 1].t \notin {"DIGIT", "THSEP"}
          \/ section.sy[j + 1].t = "DIGIT"

WholeSeparator(acc, section, j) ==
    LET digit == j > 1 /\ section.sy[j - 1].t = "DIGIT"
        leader == IF digit THEN section.sy[j - 1].s[1] ELSE "none"
        text == CASE acc.k = 0 /\ acc.count >= section.pre -> <<>>
                  [] acc.k = 0 /\ leader = "#" -> <<>>
                  [] acc.k = 0 /\ leader = "?" -> <<" ">>
                  [] OTHER -> section.sy[j].s
    IN IF ~KeepsSeparator(acc, section, j) THEN acc
       ELSE [acc EXCEPT !.does = TRUE, !.str = Inserted(@, acc.k, text), !.next = @ + GroupSize]

WholeLiteral(acc, sym) ==
    [acc EXCEPT !.str  = Inserted(@, acc.k, sym.s),
                !.lead = IF acc.k = 0 THEN @ + Len(sym.s) ELSE @,
                !.next = IF sym.t = "DECSEP" THEN GroupSize ELSE @]

WholeSymbol(acc, section, j, v) ==
    LET sym == section.sy[j]
    IN CASE sym.t \in {"STRING", "PERCENT", "DECSEP"} -> WholeLiteral(acc, sym)
         [] sym.t = "BLANK" -> [acc EXCEPT !.str = Inserted(@, acc.k, <<" ">>)]
         [] sym.t = "THSEP" -> WholeSeparator(acc, section, j)
         [] sym.t = "DIGIT" -> WholeDigit(acc, sym.s[1], section)
         [] sym.t = "General" -> [acc EXCEPT !.str = Inserted(@, acc.k, Standard(v))]
         [] OTHER -> acc

FillWithThousands(str, k, j, section, v) ==
    LET start == [str |-> str, k |-> k, lead |-> 0, count |-> 0, next |-> GroupSize,
                  does |-> section.group = 0]
        filled == FoldRight(LAMBDA i, acc : WholeSymbol(acc, section, i, v), [i \in 1 .. j |-> i], start)
        left == [filled EXCEPT !.k = @ + filled.lead]
    IN IF left.k > left.lead THEN DigitFill(left, left.lead, section).str ELSE left.str

StripPoint(str, section) ==
    IF section.post > 0 /\ Len(str) > 1 /\ Last(str) = Point THEN Front(str) ELSE str

WithDecimals(v, section) ==
    LET digits == IF General1000(section) THEN <<>> ELSE PlacedDigits(v, section)
    IN Decimals(digits, section, ~General1000(section) /\ WholeNumber(v, section))

\* Whether showing the number throws.
Overruns(v, section) == WithDecimals(Magnitude(v), section).overrun

\* ImpGetNumberOutput.  The minus sign belongs to the first section only, and is
\* dropped when no digit is left ("not -0.00").
NumberText(v, section, ix) ==
    LET w       == Magnitude(v)
        sign    == Negative(v) /\ ix = 1 /\ (General1000(section) \/ PlacedDigits(w, section) /= <<>>)
        decimal == WithDecimals(w, section)
        j       == IF section.post > 0 THEN DecimalSeparatorAt(section) ELSE Len(section.sy)
        text    == StripPoint(FillWithThousands(decimal.str, decimal.k, j, section, Hundredfold(w, section)), section)
    IN IF sign THEN <<"-">> \o text ELSE text
=============================================================================
