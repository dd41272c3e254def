---------------------------- MODULE MCSheetScan ----------------------------
(* Row elements for the small instances of SheetScan.                        *)
EXTENDS ScanProperties

Shape(cells) == [cells |-> cells, selfclosing |-> FALSE]
SelfClosing  == [cells |-> [c \in Cols |-> "absent"], selfclosing |-> TRUE]

(* One column: what matters is which rows exist and which hold data.         *)
RowsOnly == { Shape([c \in Cols |-> k]) : k \in {"good", "blank"} }

(* Rows written <row r="5"/>, as spreadsheets do for rows with only a height.*)
WithSelfClosing == RowsOnly \cup {SelfClosing}

(* Two columns: gaps at either side, every kind of cell, rows without data.  *)
Mixed == { Shape(cells) : cells \in
             { <<"good", "absent">>, <<"blank", "bad">>, <<"empty_text", "badref">> } }
=============================================================================
