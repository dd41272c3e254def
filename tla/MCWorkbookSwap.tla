--------------------------- MODULE MCWorkbookSwap ---------------------------
(* Statements for the small instances of WorkbookSwap.                       *)
EXTENDS SwapProperties

Job(mode, name) == [mode |-> mode, name |-> name]

TwoSheets == <<"A", "B">>

AllJobs  == {Job("create", "A"), Job("append", "C"), Job("replace", "B"), Job("replace", "C")}
Extends  == {Job("append", "C"), Job("append", "D"), Job("replace", "B")}
OneReplace == {Job("replace", "B")}
=============================================================================
