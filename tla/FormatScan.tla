----------------------------- MODULE FormatScan -----------------------------
(***************************************************************************)
(* ImpSvNumberformatScan: one section of a number format code is cut into  *)
(* symbols (Symbol_Division), typed (ScanType) and rewritten for output    *)
(* (FinalScan, CopyInfo).                                                  *)
(*                                                                         *)
(* A code is a sequence of atoms: the characters with a meaning of their   *)
(* own, whole keywords (the keyword table compares upper case) and literal *)
(* texts.  Codes with a currency sign, a bracketed calendar or a comment,  *)
(* and an E as the last character of a code, are outside the model.        *)
(***************************************************************************)
EXTENDS TextNumbers

\* Next_Symbol: characters that are symbols on their own.
Delimiters == {"#", "0", "?", "%", "@", "[", "]", ",", ".", "/", "'", " ", ":", "-"}
DateKeys == {"M", "MM", "MMM", "MMMM", "MMMMM", "D", "DD", "DDD", "DDDD", "YY", "YYYY",
             "NN", "NNN", "NNNN", "AAA", "AAAA", "WW"}
MinuteKeys == {"M", "MM"}
SecondKeys == {"S", "SS"}
HourKeys == {"H", "HH"}
MeridiemKeys == {"AM/PM", "A/P"}
TimeKeys == HourKeys \cup SecondKeys \cup MeridiemKeys
Exponents == {"E", "E+", "E-"}         \* with its sign an E is one symbol
Keywords == DateKeys \cup TimeKeys \cup {"MI", "MMI", "E", "General"}

Escapes == {"\\", "_", "*"}      \* each takes the next character with it
Digits == {"1", "2", "3", "4", "5", "6", "7", "8", "9"}
Separator == ","                 \* the en-US thousand and decimal separators
Point == "."

\* The symbol one atom starts: t is its type (keywords are their own type), s its text.
SymbolOf(a) ==
    [t |-> CASE a \in Delimiters -> "DEL"
             [] a \in Exponents  -> "E"
             [] a \in Keywords   -> a
             [] a \in Digits     -> "DIGIT"
             [] a = "_"          -> "BLANK"
             [] a = "*"          -> "STAR"
             [] OTHER            -> "STRING",
     s |-> CASE a = "E+" -> <<"E", "+">> [] a = "E-" -> <<"E", "-">> [] OTHER -> <<a>>]

Open(sy) == sy /= <<>> /\ Len(Last(sy).s) = 1 /\ Last(sy).s[1] \in Escapes

\* Symbol_Division: an escape closes with the next character, whatever that is.
Symbols(code) ==
    FoldLeft(LAMBDA sy, a : IF Open(sy)
                              THEN Append(Front(sy), [t |-> Last(sy).t, s |-> Append(Last(sy).s, a)])
                              ELSE Append(sy, SymbolOf(a)),
             <<>>, code)

\* Symbol_Division refuses a section with two fill characters.
TwoStars(sy) == Cardinality({i \in DOMAIN sy : sy[i].t = "STAR"}) > 1

(***************************************************************************)
(* Looking around in the symbols (positions are 1..Len).                   *)
(***************************************************************************)
Skipped == {"STRING", "STAR", "BLANK"}
IsKey(sym) == sym.t \in Keywords

PreviousKeyword(sy, i) ==
    LET before == {j \in 1 .. i - 1 : IsKey(sy[j])}
    IN IF before = {} THEN "none" ELSE sy[Max(before)].t

NextKeyword(sy, i) ==
    LET after == {j \in i + 1 .. Len(sy) : IsKey(sy[j])}
    IN IF after = {} THEN "none" ELSE sy[Min(after)].t

\* The search stops at the first symbol even when that one is a literal.
PreviousChar(sy, i) ==
    LET before == {j \in 1 .. i - 1 : sy[j].t \notin Skipped}
    IN CASE i = 1       -> " "
         [] before = {} -> Last(sy[1].s)
         [] OTHER       -> Last(sy[Max(before)].s)

NextChar(sy, i) ==
    LET after == {j \in i + 1 .. Len(sy) : sy[j].t \notin Skipped}
    IN CASE i = Len(sy) -> " "
         [] after = {}  -> Last(sy).s[1]
         [] OTHER       -> sy[Min(after)].s[1]

\* A zero that counts fractions of a second: after S or SS, and after a
\* separator or any literal.
Is100SecZero(sy, i, dec) ==
    /\ PreviousKeyword(sy, i) \in SecondKeys
    /\ dec \/ (i > 1 /\ sy[i - 1].t = "STRING")

(***************************************************************************)
(* ScanType.  The accumulator holds the type so far, the symbols (an M     *)
(* that means minutes becomes MI), whether a decimal separator was seen,   *)
(* and whether the code is still acceptable.                               *)
(***************************************************************************)
IsMinute(sy, i) ==
    \/ PreviousKeyword(sy, i) \in HourKeys
    \/ NextKeyword(sy, i) \in SecondKeys
    \/ PreviousChar(sy, i) = "["

Minute(key) == IF key = "M" THEN "MI" ELSE "MMI"

TimeTypes == {"TIME", "DATETIME"}

KeyType(sy, i) ==
    LET key == sy[i].t
    IN CASE key = "E"       -> "SCIENTIFIC"
         [] key = "General" -> "NUMBER"
         [] key \in TimeKeys -> "TIME"
         [] key \in MinuteKeys /\ IsMinute(sy, i) -> "TIME"
         [] OTHER -> "DATE"

CharType(acc, i) ==
    LET c == acc.sy[i].s[1]
    IN CASE c \in {"#", "?"} -> "NUMBER"
         [] c = "0" -> IF acc.type \notin TimeTypes THEN "NUMBER"
                       ELSE IF Is100SecZero(acc.sy, i, acc.dec) THEN "TIME" ELSE "ERROR"
         [] c = "%" -> "PERCENT"
         [] c = "/" -> "FRACTION"
         [] c = "@" -> "TEXT"
         [] c = "[" -> IF NextKeyword(acc.sy, i) \in HourKeys \cup SecondKeys \cup MinuteKeys
                       THEN "TIME" ELSE "ERROR"
         [] OTHER -> "UNDEFINED"

\* Pairs <<type so far, type of the symbol>> that leave the type as it is, and
\* those that change it; any other pair of two types is an error.
Absorbs == {<<"DATE", "FRACTION">>, <<"TIME", "FRACTION">>, <<"DATETIME", "TIME">>,
            <<"DATETIME", "DATE">>, <<"DATETIME", "FRACTION">>, <<"PERCENT", "NUMBER">>,
            <<"SCIENTIFIC", "NUMBER">>, <<"FRACTION", "NUMBER">>}
Mixed == {<<"DATE", "TIME">>, <<"TIME", "DATE">>}

Combine(old, new) ==
    CASE new = "ERROR" -> "ERROR"
      [] old = "UNDEFINED" -> new
      [] "TEXT" \in {old, new} -> "TEXT"
      [] new \in {"UNDEFINED", old} \/ <<old, new>> \in Absorbs -> old
      [] <<old, new>> \in Mixed -> "DATETIME"
      [] old = "NUMBER" /\ new \in {"SCIENTIFIC", "PERCENT", "FRACTION"} -> new
      [] OTHER -> "ERROR"

TypeStep(acc, i) ==
    LET sym == acc.sy[i]
        new == IF IsKey(sym) THEN KeyType(acc.sy, i) ELSE CharType(acc, i)
    IN IF acc.type = "ERROR" \/ sym.t \in Skipped THEN acc
       ELSE [type |-> Combine(acc.type, new),
             sy   |-> IF sym.t \in MinuteKeys /\ new = "TIME"
                        THEN [acc.sy EXCEPT ![i].t = Minute(@)] ELSE acc.sy,
             dec  |-> acc.dec \/ sym.s = <<Point>> \/ (sym.s = <<"0">> /\ new = "TIME")]

ScanType(sy) ==
    LET scanned == FoldLeft(TypeStep, [type |-> "UNDEFINED", sy |-> sy, dec |-> FALSE],
                            [i \in DOMAIN sy |-> i])
    IN [scanned EXCEPT !.type = IF @ = "UNDEFINED" THEN "DEFINED" ELSE @]

(***************************************************************************)
(* FinalScan.  A fold over the symbols rewrites their types; the fields    *)
(* carry the source's names: dec (bDecSep), thousand (bThousand), group    *)
(* (nThousand), count (nCounter), pre, post (nCntPre, nCntPost), exp       *)
(* (bExp), blank and frac (bBlank, bFrac), value (nExpVal), clock          *)
(* (bTimePart); run says that digits written in the code go on.  A symbol  *)
(* the source marks EMPTY is dropped at once.                              *)
(***************************************************************************)
Unscanned == [ok |-> TRUE, out |-> <<>>, dec |-> FALSE, thousand |-> FALSE, group |-> 0,
              count |-> 0, pre |-> 0, post |-> 0, exp |-> FALSE, blank |-> FALSE, frac |-> FALSE,
              value |-> 0, run |-> FALSE, clock |-> FALSE]

StandardInFormat == 1000         \* FLAG_STANDARD_IN_FORMAT

Emit(acc, sym, t) == [acc EXCEPT !.out = Append(@, [sym EXCEPT !.t = t])]
Fail(acc) == [acc EXCEPT !.ok = FALSE]
Counted(acc) == [acc EXCEPT !.count = @ + 1]
LastIs(acc, t) == acc.out /= <<>> /\ Last(acc.out).t = t
LastText(acc) == IF acc.out = <<>> THEN <<>> ELSE Last(acc.out).s

TextSymbol(acc, sy, i) ==
    LET sym == sy[i]
    IN IF sym.t \in {"BLANK", "STAR", "General"} \/ (sym.t = "DEL" /\ sym.s[1] = "@")
         THEN Emit(acc, sym, sym.t) ELSE Emit(acc, sym, "STRING")

\* '#', '0' and '?': an error once the number is divided by thousands.
NumberDigit(acc, sym) ==
    IF acc.group > 0 THEN Fail(acc) ELSE Counted(Emit(acc, sym, "DIGIT"))

\* "0.--": dashes right behind the decimal separator stand for no decimals.
NumberDash(acc, sym) ==
    IF LastIs(acc, "DECSEP") \/ (LastIs(acc, "DIGIT") /\ LastText(acc) = <<"-">>)
      THEN Counted(Emit(acc, sym, "DIGIT")) ELSE Emit(acc, sym, "STRING")

\* A thousand separator: between digits it asks for grouping and is put back
\* later at the right places; behind the digits, and behind another such, it
\* divides by a thousand; behind E, a blank or / it is eaten; anywhere else it is
\* a literal.
NumberComma(acc, sy, i) ==
    LET divides == Emit([acc EXCEPT !.group = @ + 1], sy[i], "THSEP")
        before  == PreviousChar(sy, i)
        literal == LastIs(acc, "STRING") /\ LastText(acc) = <<Separator>>
    IN CASE acc.exp \/ acc.blank \/ acc.frac -> acc
         [] LastIs(acc, "THSEP") -> divides
         [] literal              -> Emit(acc, sy[i], "STRING")
         [] i > 1 /\ i < Len(sy) /\ before \in {"#", "0"} /\ NextChar(sy, i) \in {"#", "0"}
              -> [acc EXCEPT !.thousand = TRUE]
         [] i > 1 /\ before \in {"#", "0"} /\ LastIs(acc, "DIGIT") /\ acc.group < StandardInFormat
              -> divides
         [] OTHER -> Emit(acc, sy[i], "STRING")

NumberPoint(acc, sym) ==
    CASE acc.blank \/ acc.frac -> Fail(acc)
      [] acc.exp -> acc
      [] acc.dec -> Emit(acc, sym, "STRING")
      [] OTHER   -> [Emit(acc, sym, "DECSEP") EXCEPT !.dec = TRUE, !.pre = acc.count, !.count = 0]

\* The exponent, which ends the digits of the mantissa.
NumberExponent(acc, sym) ==
    IF acc.exp THEN Fail(acc)
    ELSE [Emit(acc, sym, "EXP") EXCEPT !.exp = TRUE, !.count = 0,
              !.post = IF acc.dec THEN acc.count ELSE @, !.pre = IF acc.dec THEN @ ELSE acc.count]

\* The blank between a whole number and its fraction; the first one counts.
FractionBlank(acc, sym) ==
    LET blank == Emit(acc, sym, "FRACBLANK")
    IN CASE acc.blank \/ acc.frac -> blank
         [] acc.dec /\ acc.count > 0 -> Fail(acc)
         [] OTHER -> [blank EXCEPT !.blank = TRUE, !.pre = acc.count, !.count = 0]

FractionSlash(acc, sym) ==
    IF LastIs(acc, "DIGIT") /\ (~acc.frac \/ (acc.dec /\ acc.count > 0))
      THEN [Emit(acc, sym, "FRAC") EXCEPT !.frac = TRUE, !.post = acc.count, !.count = 0] ELSE Fail(acc)

\* Digits written in the code of a fraction are places, and their value, that of the
\* last run of them, is the denominator.
WrittenDigit(acc, sym) ==
    [Counted(Emit(acc, sym, "DIGIT")) EXCEPT !.run = TRUE,
        !.value = (IF acc.run THEN 10 * @ ELSE 0) + DigitValue(sym.s[1])]

FractionSymbol(acc, sym) ==
    CASE sym.t = "DIGIT" \/ (acc.run /\ sym.s = <<"0">>) -> WrittenDigit(acc, sym)
      [] sym.s = <<" ">> -> FractionBlank([acc EXCEPT !.run = FALSE], sym)
      [] sym.s = <<"/">> -> FractionSlash([acc EXCEPT !.run = FALSE], sym)

OfFraction(acc, sym) ==
    \/ sym.t = "DIGIT" \/ (acc.run /\ sym.s = <<"0">>)
    \/ sym.t = "DEL" /\ sym.s[1] \in {" ", "/"}

NumberSymbol(type, given, sy, i) ==
    LET sym == sy[i]
        c   == sym.s[1]
        acc == [given EXCEPT !.run = FALSE]
    IN CASE type = "FRACTION" /\ OfFraction(given, sym) -> FractionSymbol(given, sym)
         [] sym.t = "General" -> Emit([acc EXCEPT !.group = StandardInFormat], sym, sym.t)
         [] sym.t \in {"BLANK", "STAR", "DIGIT"} -> Emit(acc, sym, sym.t)
         [] type = "SCIENTIFIC" /\ sym.t = "E" -> NumberExponent(acc, sym)
         [] sym.t = "STRING" \/ IsKey(sym) -> Emit(acc, sym, "STRING")
         [] c \in {"#", "0", "?"} -> NumberDigit(acc, sym)
         [] c = "-"       -> NumberDash(acc, sym)
         [] c = Separator -> NumberComma(acc, sy, i)
         [] c = Point     -> NumberPoint(acc, sym)
         [] c = "%" /\ type = "PERCENT" -> Emit(acc, sym, "PERCENT")
         [] OTHER -> Emit(acc, sym, "STRING")

DateSymbol(acc, sy, i) ==
    LET sym == sy[i]
    IN IF sym.t \in DateKeys \cup {"BLANK", "STAR"} THEN Emit(acc, sym, sym.t)
       ELSE Emit(acc, sym, IF sym.t = "DEL" /\ sym.s[1] = "/" THEN "DATESEP" ELSE "STRING")

\* The decimals of the seconds; any other digit place is an error in a time.
ClockDigit(acc, sy, i) ==
    IF sy[i].s[1] = "0" /\ Is100SecZero(sy, i, acc.dec)
      THEN Counted(Emit([acc EXCEPT !.dec = TRUE], sy[i], "DIGIT")) ELSE Fail(acc)

ClockSeparator(acc, sym) ==
    CASE sym.s = <<":">>   -> Emit(acc, sym, "TIMESEP")
      [] sym.s = <<Point>> -> Emit([acc EXCEPT !.dec = TRUE], sym, "TIME100SECSEP")
      [] OTHER             -> Emit(acc, sym, "STRING")

\* nThousand of a bracketed time: the unit that takes everything above it.
UnitOf(key) == CASE key \in HourKeys -> 1 [] key \in {"M", "MM", "MI", "MMI"} -> 2
                 [] key \in SecondKeys -> 3 [] OTHER -> 0

TimeSymbol(acc, sy, i) ==
    LET sym  == sy[i]
        c    == sym.s[1]
        unit == UnitOf(NextChar(sy, i))
    IN CASE sym.t \in MeridiemKeys -> Emit([acc EXCEPT !.exp = TRUE], sym, sym.t)
         [] sym.t \in TimeKeys \cup {"MI", "MMI", "BLANK", "STAR"} -> Emit(acc, sym, sym.t)
         [] sym.t /= "DEL" -> Emit(acc, sym, "STRING")
         [] c \in {"0", "#", "?"} -> ClockDigit(acc, sy, i)
         [] c = "[" -> IF acc.thousand \/ unit = 0 THEN Fail(acc)
                       ELSE Emit([acc EXCEPT !.thousand = TRUE, !.group = unit], sym, "DEL")
         [] c = "]" -> IF acc.thousand THEN Emit(acc, sym, "DEL") ELSE Fail(acc)
         [] OTHER   -> ClockSeparator(acc, sym)

\* The last keyword decides which separators and digits are meant.
DateTimeSymbol(acc, sy, i) ==
    LET sym == sy[i]
    IN CASE sym.t \in MeridiemKeys -> Emit([acc EXCEPT !.clock = TRUE, !.exp = TRUE], sym, sym.t)
         [] sym.t \in TimeKeys \cup {"MI", "MMI"} -> Emit([acc EXCEPT !.clock = TRUE], sym, sym.t)
         [] sym.t \in DateKeys -> Emit([acc EXCEPT !.clock = FALSE], sym, sym.t)
         [] sym.t \in {"BLANK", "STAR"} -> Emit(acc, sym, sym.t)
         [] sym.t /= "DEL" -> Emit(acc, sym, "STRING")
         [] sym.s[1] \in {"0", "#", "?"} -> IF acc.clock THEN ClockDigit(acc, sy, i) ELSE Fail(acc)
         [] OTHER -> IF acc.clock THEN ClockSeparator(acc, sym) ELSE DateSymbol(acc, sy, i)

NumberTypes == {"NUMBER", "PERCENT", "SCIENTIFIC", "FRACTION"}

\* Looking back sees the rewritten symbols, looking ahead those still to come.
FinalSymbol(type, acc, sy, i) ==
    LET seen == acc.out \o SubSeq(sy, i, Len(sy))
        here == Len(acc.out) + 1
    IN CASE ~acc.ok -> acc
         [] type \in {"TEXT", "DEFINED"}   -> TextSymbol(acc, seen, here)
         [] type \in NumberTypes -> NumberSymbol(type, acc, seen, here)
         [] type = "DATE"     -> DateSymbol(acc, seen, here)
         [] type = "TIME"     -> TimeSymbol(acc, seen, here)
         [] type = "DATETIME" -> DateTimeSymbol(acc, seen, here)
         [] OTHER -> acc

\* "Insert separators at proper positions": one before every third digit, counted
\* leftwards from the end of the whole number, unless no digit stands before it.
GroupSize == 3
DigitsAmong(sy, S) == {j \in S : sy[j].t = "DIGIT"}

EndOfWhole(type, acc) ==
    LET At(t) == {j \in DOMAIN acc.out : acc.out[j].t = t}
    IN CASE type = "FRACTION" -> IF acc.blank THEN Min(At("FRACBLANK")) - 1 ELSE 0
         [] type /= "FRACTION" /\ acc.dec -> Min(At("DECSEP")) - 1
         [] type = "SCIENTIFIC" /\ ~acc.dec -> Min(At("EXP")) - 1
         [] OTHER -> Len(acc.out)

GroupedDigits(sy, last) ==
    LET Starts(j) == /\ j <= last /\ sy[j].t = "DIGIT"
                     /\ Cardinality(DigitsAmong(sy, j .. last)) % GroupSize = 0
                     /\ DigitsAmong(sy, 1 .. j - 1) /= {}
    IN FlattenSeq([j \in DOMAIN sy |-> IF Starts(j)
                     THEN <<[t |-> "THSEP", s |-> <<Separator>>], sy[j]>> ELSE <<sy[j]>>])

\* RemoveQuotes: an escaped character is shown without its backslash.
Unquoted(sym) ==
    IF sym.t = "STRING" /\ Len(sym.s) > 1 /\ sym.s[1] = "\\" THEN [sym EXCEPT !.s = Tail(@)] ELSE sym

\* What CopyInfo keeps of a scanned section (ImpSvNumberformatInfo).
NoSection == [type |-> "UNDEFINED", sy |-> <<>>, thousand |-> FALSE, group |-> 0,
              pre |-> 0, post |-> 0, exp |-> 0, value |-> 0, meridiem |-> FALSE]

\* The digits counted last are those of the exponent or denominator, of the decimals
\* (or the numerator), or of the whole number.
SectionOf(type, acc) ==
    LET number == type \in NumberTypes
        clock  == type \in TimeTypes
        shown  == IF number /\ acc.thousand THEN GroupedDigits(acc.out, EndOfWhole(type, acc)) ELSE acc.out
        behind == IF type = "FRACTION" THEN acc.frac ELSE number /\ acc.exp
        inside == ~behind /\ (IF type = "FRACTION" THEN acc.blank ELSE clock \/ (number /\ acc.dec))
    IN [type |-> type, sy |-> [i \in DOMAIN shown |-> Unquoted(shown[i])],
        thousand |-> acc.thousand, group |-> acc.group, value |-> acc.value,
        pre  |-> IF number /\ ~behind /\ ~inside THEN acc.count ELSE acc.pre,
        post |-> IF inside THEN acc.count ELSE acc.post,
        exp  |-> IF behind THEN acc.count ELSE 0,
        meridiem |-> clock /\ acc.exp]

\* ScanFormat: lexical analysis, type, rewriting; the first that fails ends it.
ScanFormat(code) ==
    LET typed == ScanType(Symbols(code))
        final == FoldLeft(LAMBDA acc, i : FinalSymbol(typed.type, acc, typed.sy, i), Unscanned,
                          [i \in DOMAIN typed.sy |-> i])
        ok    == ~TwoStars(Symbols(code)) /\ typed.type /= "ERROR" /\ final.ok
    IN [ok |-> ok, section |-> IF ok THEN SectionOf(typed.type, final) ELSE NoSection]
=============================================================================
