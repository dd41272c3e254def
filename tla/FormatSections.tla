--------------------------- MODULE FormatSections ---------------------------
(***************************************************************************)
(* SvNumberformat::InitFormat: a format code is split at its semicolons    *)
(* into at most four sections, each with bracketed prefixes (a condition,  *)
(* a colour) before it; and the choice of the section a number is shown    *)
(* with (GetOutputString).  A scan error ends the loop and is forgotten by *)
(* the caller: the sections read until then stay in force.                 *)
(***************************************************************************)
EXTENDS FormatScan, TextNumbers

CONSTANTS Condition,   \* bracketed condition |-> [op, limit], an integer limit
          Colours      \* bracketed colours, prefixes without effect on the text

BracketPrefixes == DOMAIN Condition \cup Colours
MaxSections == 4

\* IsSingleSymbol: whether escapes before position p take it; the search never
\* looks at the first character of the code.
IsSingleSymbol(code, p) ==
    Cardinality({j \in 2 .. p - 1 : \A h \in j .. p - 1 : code[h] \in Escapes}) % 2 = 1

\* ImpNextSymbol, the content: it ends before the first separator that is not
\* escaped; a separator with nothing but (erased) blanks before it is content.
ContentEnd(code, p) ==
    LET Separates(q) == code[q] = ";" /\ ~IsSingleSymbol(code, q) /\ \E h \in 1 .. q - 1 : code[h] /= " "
        ends == {q \in p .. Len(code) : Separates(q)}
    IN IF ends = {} THEN Len(code) + 1 ELSE Min(ends)

\* ImpNextSymbol, the start: blanks are skipped.
SkipBlanks(code, p) ==
    LET solid == {q \in p .. Len(code) : code[q] /= " "}
    IN IF solid = {} THEN Len(code) + 1 ELSE Min(solid)

AtPrefix(code, p) == p <= Len(code) /\ code[p] \in BracketPrefixes

(***************************************************************************)
(* The loop of InitFormat over the four sections.                          *)
(***************************************************************************)
NoFormat == [pos |-> 1, op1 |-> "NO", op2 |-> "NO", limit1 |-> 0, limit2 |-> 0,
             condition |-> FALSE, type |-> "DEFINED", count |-> 0,
             section |-> [i \in 1 .. MaxSections |-> NoSection],
             stop |-> FALSE, failed |-> FALSE, semicolon |-> FALSE]

Cancel(f) == [f EXCEPT !.stop = TRUE, !.failed = TRUE]

\* "first get bracketed prefixes": only the first section may have a condition,
\* and the second when the first had one.
ReadCondition(f, c) ==
    CASE f.count = 0 /\ ~f.condition ->
           [f EXCEPT !.condition = TRUE, !.op1 = c.op, !.limit1 = c.limit]
      [] f.count = 1 /\ f.condition -> [f EXCEPT !.op2 = c.op, !.limit2 = c.limit]
      [] OTHER -> Cancel(f)

ReadPrefix(f, code) ==
    LET p == SkipBlanks(code, f.pos)
        g == [f EXCEPT !.pos = p + 1]
    IN IF f.stop \/ ~AtPrefix(code, p) THEN f
       ELSE IF code[p] \in Colours THEN g ELSE ReadCondition(g, Condition[code[p]])

ReadPrefixes(f, code) == FoldLeft(LAMBDA g, i : ReadPrefix(g, code), f, [i \in DOMAIN code |-> i])

\* "undefined condition, default: > 0" and "default: < 0"
DefaultOperators(f) ==
    [f EXCEPT !.op1 = IF f.count = 1 /\ @ = "NO" THEN "GT" ELSE @,
              !.op2 = IF f.count = 2 /\ @ = "NO" THEN "LT" ELSE @]

\* A scanned section: the fourth is for text whatever it holds, and a section of
\* another type than the first makes the whole format user defined.
KeepSection(f, section) ==
    [f EXCEPT !.section[f.count + 1] =
                  IF f.count = 3 THEN [section EXCEPT !.type = "TEXT"] ELSE section,
              !.type = CASE f.count = 0 -> section.type
                         [] f.count \in 1 .. 2 /\ section.type /= @ -> "DEFINED"
                         [] OTHER -> @]

ReadContent(f, content) ==
    LET scanned == ScanFormat(content)
    IN CASE content = <<>> -> f
         [] content /= <<>> /\ scanned.ok /\ scanned.section.sy /= <<>> -> KeepSection(f, scanned.section)
         [] OTHER -> Cancel(f)

\* The end of the code ends the loop; a fourth section given as empty hides texts.
EndOfCode(f, code) ==
    IF f.pos <= Len(code) THEN f
    ELSE [f EXCEPT !.stop = TRUE,
                   !.section[4].type = IF f.count = 2 /\ f.semicolon /\ ~f.failed THEN "TEXT" ELSE @]

ReadFormat(f, code) ==
    LET p == SkipBlanks(code, f.pos)
        q == ContentEnd(code, p)
        content == SubSeq(code, p, q - 1)
        g == DefaultOperators([f EXCEPT !.pos = q + 1,
                 !.semicolon = IF content = <<>> THEN q <= Len(code) ELSE Last(content) = ";"])
    IN CASE f.stop -> f
         [] p <= Len(code) /\ code[p] = "]" -> Cancel(f)
         [] OTHER -> EndOfCode(ReadContent(g, content), code)

ReadSection(f, code) ==
    IF f.stop THEN f
    ELSE LET g == ReadFormat(ReadPrefixes(f, code), code) IN [g EXCEPT !.count = @ + 1]

\* "No trailing subformat => GENERAL but not if specified empty"
General == ScanFormat(<<"General">>).section
Missing(f, i) == f.section[i].sy = <<>>
PlainGeneral(section) == Len(section.sy) = 1 /\ section.sy[1].t = "General"

AddGeneral(f) ==
    LET left == CASE f.count = 1 /\ Missing(f, 1) -> 1
                  [] f.count = 1 /\ ~Missing(f, 1) /\ Missing(f, 2) /\ ~PlainGeneral(f.section[1]) -> 2
                  [] f.count = 2 /\ Missing(f, 3) /\ f.op2 /= "NO" -> 3
                  [] OTHER -> 0
    IN IF ~f.condition \/ f.failed \/ f.semicolon \/ left = 0 THEN f
       ELSE [f EXCEPT !.section[left] = General]

ZeroLimits(f) == f.limit1 = 0 /\ f.limit2 = 0

\* A mutant: zero stays with the second section.
ZeroStays(f) == f

\* "0 to the first format"
ZeroToFirst(f) ==
    IF Missing(f, 3) /\ f.op1 = "GT" /\ f.op2 = "NO" /\ ZeroLimits(f) THEN [f EXCEPT !.op1 = "GE"] ELSE f

InitFormat(code) ==
    LET read == FoldLeft(LAMBDA f, i : ReadSection(f, code), NoFormat, <<1, 2, 3, 4>>)
    IN ZeroToFirst(AddGeneral(read))

(***************************************************************************)
(* GetOutputString: which section shows the number, and with which sign.   *)
(***************************************************************************)
ImpCheckCondition(v, limit, op) ==
    CASE op = "NO" -> TRUE
      [] op = "EQ" -> Equals(v, limit)
      [] op = "NE" -> ~Equals(v, limit)
      [] op = "LT" -> ~Above(v, limit) /\ ~Equals(v, limit)
      [] op = "LE" -> ~Above(v, limit)
      [] op = "GT" -> Above(v, limit)
      [] op = "GE" -> Above(v, limit) \/ Equals(v, limit)

SectionIndex(f, v) ==
    IF ImpCheckCondition(v, f.limit1, f.op1) THEN 1
    ELSE IF ImpCheckCondition(v, f.limit2, f.op2) THEN 2 ELSE 3

\* Whether the second, or the first, section is really for negative numbers.
IsNegativeRealNegative(f) ==
    ZeroLimits(f) /\ <<f.op1, f.op2>> \in {<<"GE", "NO">>, <<"GT", "LT">>, <<"NO", "NO">>}

IsNegativeRealNegative2(f) ==
    ZeroLimits(f) /\ <<f.op1, f.op2>> \in {<<"LT", "GT">>, <<"LT", "EQ">>, <<"LT", "GE">>,
                                           <<"LT", "NO">>, <<"LE", "NO">>, <<"LE", "GT">>}

Unsigned(f, v, ix) ==
    IF (ix = 2 /\ IsNegativeRealNegative(f)) \/ (ix = 1 /\ IsNegativeRealNegative2(f))
      THEN Magnitude(v) ELSE v
=============================================================================
