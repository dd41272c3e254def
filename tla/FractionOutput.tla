--------------------------- MODULE FractionOutput ---------------------------
(***************************************************************************)
(* Numbers shown as fractions and with an exponent (GetOutputString,       *)
(* ImpNumberFill).  A fraction is a pair <<numerator, denominator>>.       *)
(* Bounds: whole numbers below 2^32 and at most nine places for the        *)
(* denominator, beyond which the source gives its error text.              *)
(***************************************************************************)
EXTENDS NumberOutput

(***************************************************************************)
(* ImpNumberFill: str is filled into the symbols from position from back   *)
(* to one of the given type, or to the first symbol, digits in a row being *)
(* one symbol.  Left is that position.                                     *)
(***************************************************************************)
FirstSymbol(section) ==
    LET other == {i \in DOMAIN section.sy : section.sy[i].t /= "DIGIT"}
    IN Max({1, Min(other \cup {Len(section.sy) + 1}) - 1})

FilledTo(section, from, type) ==
    Max({Min({FirstSymbol(section), from})}
        \cup {i \in FirstSymbol(section) + 1 .. from : section.sy[i].t = type})

FillPlace(acc, c) ==
    IF acc.k > 0 THEN [acc EXCEPT !.k = @ - 1]
    ELSE [acc EXCEPT !.str = (CASE c = "0" -> <<"0">> [] c = "?" -> <<" ">> [] OTHER -> <<>>) \o @]

FillSymbol(acc, sym, v) ==
    CASE sym.t = "DIGIT"   -> FillPlace(acc, sym.s[1])
      [] sym.t = "BLANK"   -> [acc EXCEPT !.str = Inserted(@, acc.k, <<" ">>), !.k = @ + 1]
      [] sym.t = "STAR"    -> acc
      [] sym.t = "THSEP"   -> IF acc.k = 0 THEN acc ELSE [acc EXCEPT !.str = Inserted(@, acc.k, sym.s)]
      [] sym.t = "General" -> [acc EXCEPT !.str = Inserted(@, acc.k, StandardOf(v))]
      [] OTHER             -> [acc EXCEPT !.str = Inserted(@, acc.k, sym.s)]

NumberFill(str, section, from, type, v) ==
    FoldRight(LAMBDA sym, acc : FillSymbol(acc, sym, v),
              SubSeq(section.sy, FilledTo(section, from, type) + 1, from), [str |-> str, k |-> Len(str)])

(***************************************************************************)
(* The fraction nearest to n/d, 0 <= n/d <= 1/2, among those with a        *)
(* denominator up to basis: its neighbours in the Farey series are found,  *)
(* and the nearer of them is taken.                                        *)
(***************************************************************************)
Less(a, b) == a[1] * b[2] < b[1] * a[2]

\* ImpGGT
GGT[x \in Nat, y \in Nat] == IF y = 0 THEN x ELSE GGT[y, x % y]
Reduced(a) == LET g == GGT[a[2], a[1]] IN <<a[1] \div g, a[2] \div g>>

\* The two loops that count the numerator and the denominator down until the
\* fraction is not above the last one, and not below the lower neighbour.
RECURSIVE CountedDown(_, _, _)
CountedDown(a, below, above) ==
    LET x == Max({i \in 0 .. a[1] : ~Less(above, <<i, a[2]>>)})
        y == Max({1} \cup {i \in 1 .. a[2] : ~Less(<<x, i>>, below)})
    IN IF y = 1 \/ ~Less(above, <<x, y>>) THEN <<x, y>> ELSE CountedDown(<<x, y>>, below, above)

RECURSIVE Neighbour(_, _, _)
Neighbour(a, below, above) ==
    LET next == CountedDown(a, below, above)
        r    == Reduced(next)
    IN IF r[1] * below[2] - below[1] * r[2] = 1 \/ next[2] <= 1 THEN r
       ELSE Neighbour(<<next[1], next[2] - 1>>, below, IF Less(above, next) THEN above ELSE next)

\* "Entry into Farey series": neighbours around a number near n/d.
Entry(n, d, basis) ==
    LET x == (n * basis) \div d
        below == Reduced(<<x, basis>>)
    IN CASE x = 0 -> <<<<0, 1>>, <<1, basis>>>>
         [] x > 0 /\ x = (basis - 1) \div 2 -> <<<<x, basis>>, <<1, 2>>>>
         [] x = 1 /\ x /= (basis - 1) \div 2 -> <<<<1, basis>>, <<1, basis - 1>>>>
         [] OTHER -> <<below, Neighbour(<<x, basis - 1>>, below, <<x, basis - 1>>)>>

\* "next Farey number", until n/d is not above.
RECURSIVE Enclosing(_, _, _)
Enclosing(pair, f, basis) ==
    LET low == pair[1]
        up  == pair[2]
        times == (low[2] + basis) \div up[2]
    IN IF ~Less(up, f) THEN pair
       ELSE Enclosing(<<up, <<times * up[1] - low[1], times * up[2] - low[2]>>>>, f, basis)

Nearer(pair, n, d) ==
    LET low == pair[1]
        up  == pair[2]
    IN IF 2 * n * low[2] * up[2] < d * (low[1] * up[2] + up[1] * low[2]) THEN low ELSE up

\* The upper half is mirrored.  The result is whole, which may be one more, and the
\* fraction.
Farey(v, basis) ==
    LET upper == 2 * v.num > v.den
        n == IF upper THEN v.den - v.num ELSE v.num
        a == Nearer(Enclosing(Entry(n, v.den, basis), <<n, v.den>>, basis), n, v.den)
    IN CASE ~upper -> <<v.whole, a[1], a[2]>>
         [] upper /\ a = <<0, 1>> -> <<v.whole + 1, 0, 1>>
         [] OTHER -> <<v.whole, a[2] - a[1], a[2]>>

\* "big denominators": a rounded decimal fraction is shortened, the last time with a
\* greatest common divisor that gives up small remainders (ImpGGTRound, D_EPS).
GGTRound[x \in Nat, y \in Nat] ==
    IF y = 0 THEN x ELSE IF 100 * (x % y) > y THEN GGTRound[y, x % y] ELSE y
ReducedRound(a) == LET g == GGTRound[a[2], a[1]] IN <<a[1] \div g, a[2] \div g>>

Quotient(n, d) == n \div d + (IF 2 * (n % d) >= d THEN 1 ELSE 0)       \* rounded half up

\* (The places one after the other: TLC's integers are small.)
DecimalFraction(v, places) ==
    LET cut == FoldLeft(LAMBDA acc, i : <<10 * acc[1] + (10 * acc[2]) \div v.den, (10 * acc[2]) % v.den>>,
                        <<0, v.num>>, [i \in 1 .. places |-> i])
    IN <<cut[1] + Quotient(cut[2], v.den), 10 ^ places>>

BigDenominator(v, places) ==
    LET basis == 10 ^ places - 1
        exact == Reduced(DecimalFraction(v, 7))
        short == IF exact[2] > basis THEN ReducedRound(exact) ELSE exact
        a == IF short[2] > basis THEN ReducedRound(<<DecimalFraction(v, places)[1], basis>>) ELSE short
    IN <<v.whole, a[1], a[2]>>

\* A denominator written in the code.
WrittenDenominator(v, d) ==
    LET n == Quotient(v.num * d, v.den)
    IN IF n = d THEN <<v.whole + 1, 0, 1>> ELSE <<v.whole, n, d>>

MaxFractionPrec == 3
FractionOf(v, section) ==
    CASE section.value > 0 -> WrittenDenominator(v, section.value)
      [] section.value = 0 /\ section.exp <= MaxFractionPrec -> Farey(v, 10 ^ section.exp - 1)
      [] OTHER -> BigDenominator(v, section.exp)

(***************************************************************************)
(* The text, from its end: denominator, numerator, whole number.           *)
(***************************************************************************)
\* What stands at a place the filling stopped at, and the place before it.
Stopped(section, j, type) == j > 0 /\ section.sy[j].t = type
Left(section, j, type) == IF Stopped(section, j, type) THEN j - 1 ELSE j

\* f is the number as whole number, numerator and denominator.
FractionSymbols(f, v, section, ix) ==
    LET mixed == section.pre > 0
        n     == IF mixed THEN f[2] ELSE f[1] * f[3] + f[2]
        plain == mixed /\ n = 0
        whole == IF ~mixed \/ (f[1] = 0 /\ n /= 0) THEN <<>> ELSE Shown(f[1])
        Filled(str, from, type) == NumberFill(str, section, from, type, Magnitude(v)).str

        divAt  == FilledTo(section, Len(section.sy), "FRAC")
        div    == Filled(IF plain THEN <<>> ELSE Shown(f[3]), Len(section.sy), "FRAC")
        slash  == IF ~Stopped(section, divAt, "FRAC") THEN <<>> ELSE IF plain THEN <<" ">> ELSE section.sy[divAt].s
        j      == Left(section, divAt, "FRAC")

        fracAt == FilledTo(section, j, "FRACBLANK")
        frac   == IF j = 0 THEN <<>> ELSE Filled(IF plain THEN <<>> ELSE Shown(n), j, "FRACBLANK")
        blank  == IF j > 0 /\ Stopped(section, fracAt, "FRACBLANK") THEN section.sy[fracAt].s ELSE <<>>
        i      == IF j = 0 THEN 0 ELSE Left(section, fracAt, "FRACBLANK")

        main   == IF i = 0 \/ whole = <<>> THEN <<>>
                  ELSE FillWithThousands(whole, Len(whole), i, section, Magnitude(v))
        sign   == Negative(v) /\ ix = 1 /\ ~(n = 0 /\ f[1] = 0)
    IN (IF sign THEN <<"-">> ELSE <<>>) \o main \o blank \o frac \o slash \o div

FractionText(v, section, ix) ==
    IF section.exp = 0 THEN <<>>
    ELSE FractionSymbols(FractionOf(Magnitude(v), section), v, section, ix)

(***************************************************************************)
(* Numbers with an exponent.                                               *)
(***************************************************************************)
SmallestExponent == 4           \* bound: numbers down to 10^-4

Numerator(v) == v.whole * v.den + v.num      \* of the number as one fraction

Exponent(v) ==
    CASE Zero(v)     -> 0
      [] v.whole > 0 -> Len(Shown(v.whole)) - 1
      [] OTHER       -> -Min({e \in 1 .. SmallestExponent : v.num * 10 ^ e >= v.den})

\* doubleToString: the first digits of a number, rounded, which may carry into its
\* exponent.  The result is digits and exponent.
Mantissa(v, digits) ==
    LET e     == Exponent(v)
        shift == digits - 1 - e
        m     == IF shift >= 0 THEN Quotient(Numerator(v) * 10 ^ shift, v.den)
                 ELSE Quotient(Numerator(v), v.den * 10 ^ (-shift))
    IN IF m = 10 ^ digits THEN <<10 ^ (digits - 1), e + 1>> ELSE <<m, e>>

DropLeading(str, k) ==
    LET zeros == Max({n \in 0 .. k : \A i \in 1 .. n : str[i] = "0"})
    IN SubSeq(str, zeros + 1, Len(str))

ScientificText(v, section, ix) ==
    LET w       == Magnitude(v)
        digits  == section.pre + section.post
        m       == Mantissa(w, digits)
        e       == IF section.pre = 1 THEN m[2] ELSE m[2] - (section.pre - 1)
        size    == IF e < 0 THEN -e ELSE e
        at      == FilledTo(section, Len(section.sy), "EXP")
        places  == NumberFill(IF section.pre = 1 THEN Padded(size, 3) ELSE Shown(size),
                              section, Len(section.sy), "EXP", w)
        letter  == section.sy[at].s
        sign    == IF e < 0 THEN <<"-">> ELSE IF Len(letter) > 1 /\ letter[2] = "+" THEN <<"+">> ELSE <<>>
        power   == (IF Stopped(section, at, "EXP") THEN <<letter[1]>> \o sign ELSE <<>>)
                     \o DropLeading(places.str, places.k)
        i       == Left(section, at, "EXP")
        counted == [section EXCEPT !.pre = digits]
        main    == IF i = 0 THEN <<>>
                   ELSE FillWithThousands(Padded(m[1], digits), digits, i, counted, w)
    IN (IF Negative(v) /\ ix = 1 THEN <<"-">> ELSE <<>>) \o main \o power
=============================================================================
