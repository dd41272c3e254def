-------------------------- MODULE MCCopyStatements --------------------------
(* Workbooks of other producers for the small instances of CopyStatements.   *)
EXTENDS CopyProperties

Lower == [name \in {"A", "a", "B", "C", "&", "&amp;", ""} |-> IF name = "A" THEN "a" ELSE name]
OneEntity == [name \in {"A", "a", "B", "C", "&", "&amp;", ""} |-> IF name = "&amp;" THEN "&" ELSE name]

Sheet(name, rid, id)   == [name |-> name, rid |-> rid, id |-> id]
Rel(id, type, target)  == [id |-> id, type |-> type, target |-> target]
Holds(parts, styles)   == [part \in parts \cup {StylesPart} |->
                              IF part = StylesPart THEN <<styles>>
                              ELSE IF part.dir = "worksheets" THEN <<"t0">> ELSE <<"blob">>]
ChartPart     == [dir |-> "chartsheets", leaf |-> "sheet", n |-> 1]
PaddedSheet   == [dir |-> "worksheets", leaf |-> "sheet0", n |-> 2]
NamedSheet    == [dir |-> "worksheets", leaf |-> "file", n |-> 7]
RelStyles(n)  == Rel(RelId(n), "other", StylesPart)

(* Sheets that have been deleted leave gaps: rId9, sheetId 7, sheet3.xml.    *)
Sparse ==
    [sheets |-> <<Sheet("B", RelId(9), 7)>>,
     rels |-> <<Rel(RelId(9), "worksheet", Worksheet(3)), RelStyles(4), Rel(RelId(5), "other", SharedStrings)>>,
     overrides |-> <<Worksheet(3)>>,
     entries |-> Holds({Worksheet(3), SharedStrings}, "styles_partial")]

(* Ids nobody counts: a leading zero, letters, no sheetId; a chart sheet, a  *)
(* worksheet under a name of its own, and a zip with names twice.            *)
Unusual ==
    [sheets |-> <<Sheet("a", [form |-> "other", n |-> 3], 0),
                  Sheet("B", [form |-> "rId0", n |-> 2], 2)>>,
     rels |-> <<Rel([form |-> "other", n |-> 3], "worksheet", PaddedSheet),
                Rel([form |-> "rId0", n |-> 2], "chartsheet", ChartPart),
                RelStyles(1)>>,
     overrides |-> <<PaddedSheet>>,
     entries |-> [Holds({PaddedSheet, ChartPart, WorksheetsDir}, "styles_complete")
                    EXCEPT ![PaddedSheet] = <<"t1", "t0">>]]

(* Two worksheets, the second in front of the first.                         *)
Reordered ==
    [sheets |-> <<Sheet("B", RelId(2), 1), Sheet("A", RelId(1), 3)>>,
     rels |-> <<Rel(RelId(1), "worksheet", Worksheet(1)), Rel(RelId(2), "worksheet", NamedSheet), RelStyles(3)>>,
     overrides |-> <<NamedSheet, Worksheet(1)>>,
     entries |-> Holds({Worksheet(1), NamedSheet}, "styles_complete")]

WellFormed == {Sparse, Unusual, Reordered}
=============================================================================
