--------------------------- MODULE CopyStatements ---------------------------
(***************************************************************************)
(* COPY ... TO statements on one path, one after another: which of them    *)
(* write a fresh workbook, extend it, replace a sheet of it or are refused *)
(* (GlobalWriteXLSXData, XLXSWriter, XLSXAppender), and the package that   *)
(* is there afterwards.  Each statement is one step; what another process, *)
(* an error or a crash can see in the middle of one is in WorkbookSwap.    *)
(***************************************************************************)
EXTENDS XLSXAppender

CONSTANTS
    ThirdParty,   (* packages of other producers that may be there at first  *)
    MaxCopies     (* bound: statements in a row                              *)

ASSUME CopyAssumption ==
    /\ \A pkg \in ThirdParty : IsPackage(pkg)
    /\ MaxCopies \in Nat

VARIABLES
    file,      (* the package at the path                                    *)
    copies,    (* statements so far                                          *)
    last       (* the latest one: its mode, name, table and whether it was   *)
               (* refused                                                    *)

vars == <<file, copies, last>>

Modes == {"create", "append", "replace"}
NoStatement == [mode |-> "none", name |-> "none", table |-> "none", refused |-> FALSE]
Statements == [mode : Modes, name : Names, table : Tables, refused : BOOLEAN]

Init ==
    /\ file \in {NoFile} \cup ThirdParty
    /\ copies = 0
    /\ last = NoStatement

(* GlobalWriteXLSXData: use_appender. *)
UsesAppender(mode) == mode \in {"append", "replace"} /\ file # NoFile

Execute(mode, name, table, refused) ==
    /\ copies < MaxCopies
    /\ copies' = copies + 1
    /\ last' = [mode |-> mode, name |-> name, table |-> table, refused |-> refused]

CopyFresh(mode, name, table) ==
    /\ ~UsesAppender(mode)
    /\ Execute(mode, name, table, FALSE)
    /\ file' = FreshPackage(name, table)

CopyAppend(name, table) ==
    /\ UsesAppender("append")
    /\ CanAppend(file, name)
    /\ Execute("append", name, table, FALSE)
    /\ file' = AppendTo(file, name, table)

CopyReplace(name, table) ==
    /\ UsesAppender("replace")
    /\ CanReplace(file, name)
    /\ Execute("replace", name, table, FALSE)
    /\ file' = ReplaceIn(file, name, table)

(* The constructor of XLSXAppender throws before it writes anything.         *)
Refuse(mode, name, table) ==
    /\ UsesAppender(mode)
    /\ IF mode = "append" THEN ~CanAppend(file, name) ELSE ~CanReplace(file, name)
    /\ Execute(mode, name, table, TRUE)
    /\ UNCHANGED file

Next == \E name \in Names, table \in Tables :
            \/ \E mode \in Modes : CopyFresh(mode, name, table) \/ Refuse(mode, name, table)
            \/ CopyAppend(name, table)
            \/ CopyReplace(name, table)

Spec == Init /\ [][Next]_vars
=============================================================================
