---------------------------- MODULE TextNumbers ----------------------------
(***************************************************************************)
(* The numbers TEXT is given, and their decimal digits.  A number is a     *)
(* sign, a whole part and a fraction num/den below one, so that the model  *)
(* computes exactly where the code computes in doubles; the values of a    *)
(* run are chosen away from what a double cannot hold.                     *)
(***************************************************************************)
EXTENDS Integers, Sequences, FiniteSetsExt, SequencesExt

Zero(v) == v.whole = 0 /\ v.num = 0
Negative(v) == v.neg /\ ~Zero(v)
Magnitude(v) == [v EXCEPT !.neg = FALSE]

\* The number against an integer limit.
Equals(v, limit) == v.num = 0 /\ (IF v.neg THEN -v.whole ELSE v.whole) = limit
Above(v, limit) ==
    IF Negative(v) THEN limit < 0 /\ v.whole < -limit
    ELSE v.whole > limit \/ (v.whole = limit /\ v.num > 0)

Times(v, n) ==       \* of a number that is not negative
    [v EXCEPT !.whole = @ * n + (v.num * n) \div v.den, !.num = (@ * n) % v.den]

Thousandth(v) ==
    [v EXCEPT !.whole = @ \div 1000, !.num = (v.whole % 1000) * v.den + @, !.den = @ * 1000]

\* A mutant: the carry out of the decimals is lost.
RoundedWithoutCarry(v, places) ==
    [whole |-> v.whole,
     parts |-> ((v.num * 10 ^ places * 2 + v.den) \div (2 * v.den)) % 10 ^ places]

\* The number in units of 10^-places, rounded half up, split at the point.
Rounded(v, places) ==
    LET parts == (v.num * 10 ^ places * 2 + v.den) \div (2 * v.den)
    IN [whole |-> v.whole + parts \div 10 ^ places, parts |-> parts % 10 ^ places]

DigitNames == <<"0", "1", "2", "3", "4", "5", "6", "7", "8", "9">>
DigitAt(n, place) == DigitNames[((n \div 10 ^ place) % 10) + 1]

\* n in decimal with at least width digits; zero has none of its own.
Padded(n, width) ==
    LET significant == {p \in 0 .. 9 : n >= 10 ^ p}
        count == Max({width} \cup {p + 1 : p \in significant})
    IN [i \in 1 .. count |-> DigitAt(n, count - i)]

Shown(n) == Padded(n, 1)

\* ... and back: the number a sequence of digits stands for.
DigitValue(c) == CHOOSE d \in 0 .. 9 : DigitNames[d + 1] = c
ValueOf(digits) == FoldLeft(LAMBDA n, c : 10 * n + DigitValue(c), 0, digits)
IsDigit(c) == \E d \in 1 .. 10 : DigitNames[d] = c
=============================================================================
