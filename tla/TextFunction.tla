---------------------------- MODULE TextFunction ----------------------------
(***************************************************************************)
(* The SQL functions text and excel_text: for every row of a vector a      *)
(* format code is read and a number is shown with it (NumberFormatFunction,*)
(* GetNumberFormatString, SvNumberformat::GetOutputString).                *)
(***************************************************************************)
EXTENDS FractionOutput, DateOutput

CONSTANT Calls          \* the rows: records [number, code]

VARIABLES
    call,     \* the row being shown
    pc,       \* what GetOutputString does next
    format,   \* the SvNumberformat made of the code
    number,   \* fNumber, whose sign the choice of a section may drop
    ix,       \* nIx, the section chosen
    text      \* OutString

vars == <<call, pc, format, number, ix, text>>

NoNumber == [neg |-> FALSE, whole |-> 0, num |-> 0, den |-> 1]
NoCall == [number |-> NoNumber, code |-> <<>>]

Init ==
    /\ call = NoCall
    /\ pc = "next"
    /\ format = NoFormat
    /\ number = NoNumber
    /\ ix = 1
    /\ text = <<>>

\* GetNumberFormatString: the constructor reads the code; its error position
\* (nCheckPos) is not looked at.
ReadCode(c) ==
    /\ pc = "next"
    /\ pc' = "choose"
    /\ call' = c
    /\ format' = InitFormat(c.code)
    /\ number' = c.number
    /\ UNCHANGED <<ix, text>>

Answer(t) ==
    /\ text' = t
    /\ pc' = "done"
    /\ UNCHANGED <<call, format, number, ix>>

\* A code that is text as a whole shows the number as it is.
StandardText ==
    /\ pc = "choose" /\ format.type = "TEXT"
    /\ Answer(Standard(number))

ChooseSection ==
    /\ pc = "choose" /\ format.type /= "TEXT"
    /\ ix' = SectionIndex(format, number)
    /\ number' = Unsigned(format, number, ix')
    /\ pc' = "show"
    /\ UNCHANGED <<call, format, text>>

Section == format.section[ix]

Shows(types) == pc = "show" /\ ~Missing(format, ix) /\ Section.type \in types

\* "leer => nichts": a section that was not given, or not understood.
ShowNothing == pc = "show" /\ Missing(format, ix) /\ Answer(<<>>)

LiteralText(sym) ==
    CASE sym.t = "STRING" -> sym.s [] sym.t = "BLANK" -> <<" ">> [] OTHER -> <<>>

ShowLiterals ==
    /\ Shows({"TEXT", "DEFINED"})
    /\ Answer(FlattenSeq([i \in DOMAIN Section.sy |-> LiteralText(Section.sy[i])]))

ShowNumber ==
    /\ Shows({"NUMBER", "PERCENT"}) /\ ~Overruns(number, Section)
    /\ Answer(NumberText(number, Section, ix))

\* Any exception of the formatter ends the query with an internal error.
InternalError ==
    /\ Shows({"NUMBER", "PERCENT"}) /\ Overruns(number, Section)
    /\ pc' = "error"
    /\ UNCHANGED <<call, format, number, ix, text>>

ShowFraction == Shows({"FRACTION"}) /\ Answer(FractionText(number, Section, ix))
ShowScientific == Shows({"SCIENTIFIC"}) /\ Answer(ScientificText(number, Section, ix))
ShowDate == Shows({"DATE"}) /\ Answer(DateText(number, Section))
ShowTime == Shows({"TIME"}) /\ Answer(TimeText(number, Section, ix))
ShowDateTime == Shows({"DATETIME"}) /\ Answer(DateTimeText(number, Section))

\* BinaryExecutor goes on with the next row, and nothing of this one is kept; after
\* an error the next row is one of another query.
NextRow ==
    /\ pc \in {"done", "error"}
    /\ pc' = "next"
    /\ call' = NoCall
    /\ format' = NoFormat /\ number' = NoNumber /\ ix' = 1 /\ text' = <<>>

GetOutputString ==
    \/ StandardText \/ ChooseSection \/ ShowNothing \/ ShowLiterals
    \/ ShowNumber \/ InternalError \/ ShowFraction \/ ShowScientific \/ ShowDate \/ ShowTime \/ ShowDateTime

Next == (\E c \in Calls : ReadCode(c)) \/ GetOutputString \/ NextRow

Spec == Init /\ [][Next]_vars
=============================================================================
