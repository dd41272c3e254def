--------------------------- MODULE CopyProperties ---------------------------
(* What must hold of the workbooks that COPY leaves behind.                  *)
EXTENDS CopyStatements

-----------------------------------------------------------------------------
(* A package a spreadsheet program opens without repairing it.               *)

PartOf(pkg, i) == TargetOf(pkg, pkg.sheets[i].rid)

NamesDiffer(pkg) ==
    \A i, j \in DOMAIN pkg.sheets : Fold[pkg.sheets[i].name] = Fold[pkg.sheets[j].name] => i = j

SheetIdsDiffer(pkg) ==
    \A i, j \in DOMAIN pkg.sheets :
        (pkg.sheets[i].id = pkg.sheets[j].id /\ pkg.sheets[i].id # 0) => i = j

RelIdsDiffer(pkg) == \A i, j \in DOMAIN pkg.rels : pkg.rels[i].id = pkg.rels[j].id => i = j

SheetsResolve(pkg) ==
    \A i \in DOMAIN pkg.sheets :
        \E k \in DOMAIN pkg.rels :
            /\ pkg.rels[k].id = pkg.sheets[i].rid
            /\ pkg.rels[k].target \in EntryNames(pkg.entries)
            /\ pkg.rels[k].target # StylesPart
            /\ ~IsDirectory(pkg.rels[k].target)

TargetsDiffer(pkg) ==
    \A i, j \in DOMAIN pkg.rels : pkg.rels[i].target = pkg.rels[j].target => i = j
SheetRidsDiffer(pkg) ==
    \A i, j \in DOMAIN pkg.sheets : pkg.sheets[i].rid = pkg.sheets[j].rid => i = j

WorksheetsDeclared(pkg) ==
    /\ \A k \in WorksheetRels(pkg) : \E o \in DOMAIN pkg.overrides : pkg.overrides[o] = pkg.rels[k].target
    /\ \A o, p \in DOMAIN pkg.overrides : pkg.overrides[o] = pkg.overrides[p] => o = p

(* No sheet<n>.xml in xl/worksheets that no worksheet relationship names.    *)
NoOrphans(pkg) ==
    \A part \in EntryNames(pkg.entries) \cup Elements(pkg.overrides) \cup {r.target : r \in Elements(pkg.rels)} :
        part.dir = "worksheets" /\ part.leaf = "sheet" =>
            \E k \in WorksheetRels(pkg) : pkg.rels[k].target = part

(* What a sheet has in xl/worksheets is related to it as a worksheet.        *)
WorksheetsTyped(pkg) ==
    \A i \in DOMAIN pkg.sheets :
        PartOf(pkg, i).dir = "worksheets" => HasWorksheet(pkg, pkg.sheets[i].rid)

PackageOK(pkg) ==
    /\ NamesDiffer(pkg) /\ SheetIdsDiffer(pkg) /\ RelIdsDiffer(pkg)
    /\ SheetRidsDiffer(pkg) /\ TargetsDiffer(pkg)
    /\ SheetsResolve(pkg) /\ WorksheetsDeclared(pkg) /\ WorksheetsTyped(pkg)
    /\ NoOrphans(pkg)

(* COPY repairs nothing: what it finds at the path has to be in order.       *)
ASSUME WorkbooksAssumption == \A pkg \in ThirdParty : PackageOK(pkg)

(* WorkbookOK: allocation of ids, relationship ids and part names never      *)
(* makes two sheets collide or leaves one that does not resolve, however the *)
(* statements follow each other and whoever wrote the workbook.              *)
WorkbookOK == IsPackage(file) /\ PackageOK(file)

-----------------------------------------------------------------------------
(* ReadsBack: read_xlsx finds every worksheet of the workbook under its own  *)
(* name, and in it the contents of that worksheet and of no other.           *)
ReadsBack ==
    \A i \in Candidates(file) :
        LET name == file.sheets[i].name
        IN  CanRead(file, name) /\ ReadSheet(file, name) = ReadEntry(file.entries, PartOf(file, i))

(* LastWriteReads: what the latest statement wrote is what a scan of the     *)
(* sheet it named returns, if the name is spelled as in the workbook.        *)
LastWriteReads ==
    (last # NoStatement /\ ~last.refused /\ \E s \in Elements(file.sheets) : s.name = last.name) =>
        CanRead(file, last.name) /\ ReadSheet(file, last.name) = last.table

(* What LastWriteReads rests on, whatever the reader makes of the names: the *)
(* sheet the latest statement named has its table.                           *)
LastWritten ==
    (last # NoStatement /\ ~last.refused) =>
        \A i \in DOMAIN file.sheets : file.sheets[i].name = last.name =>
            /\ PartOf(file, i).dir = "worksheets"
            /\ ReadEntry(file.entries, PartOf(file, i)) = last.table

(* The names for which a sheet can be asked for: not the empty one, which    *)
(* read_xlsx takes for the primary sheet, and of names that it unescapes to  *)
(* the same string only those the writer takes for one name as well.         *)
NamesLegible ==
    /\ NoName \notin Names
    /\ \A a, b \in Names : Unescape[a] = Unescape[b] => Fold[a] = Fold[b]

(* CopyInv: no two sheets collide, each of them resolves, and the sheet the  *)
(* latest statement named holds its table; inductive as it stands.           *)
CopyInv == WorkbookOK /\ LastWritten

-----------------------------------------------------------------------------
(* The sheets as SheetDirectory sees them: in tab order, each with the       *)
(* contents of the part its relationship names.                              *)
Book ==
    [i \in DOMAIN file.sheets |->
        [name |-> file.sheets[i].name, table |-> ReadEntry(file.entries, PartOf(file, i))]]

Directory == INSTANCE SheetDirectory WITH Tables <- Bodies, book <- Book

(* KeepsDirectory: COPY implements SheetDirectory.                           *)
KeepsDirectory == Directory!Spec

-----------------------------------------------------------------------------
Rewrites == file # NoFile /\ last'.mode \in {"append", "replace"} /\ copies' # copies

(* StableIdentity: a statement that appends or replaces leaves every sheet   *)
(* that is there its position, name, sheetId, r:id and part.                 *)
StableIdentity ==
    [][Rewrites =>
         \A i \in DOMAIN file.sheets :
             i \in DOMAIN file'.sheets /\ file'.sheets[i] = file.sheets[i]
                 /\ PartOf(file', i) = PartOf(file, i)]_vars

(* OthersPreserved: all other parts keep the contents that count: a replace  *)
(* changes the part of one sheet, an append none, and only styles.xml may be *)
(* completed; charts, images and shared strings stay as they are.            *)
OthersPreserved ==
    [][Rewrites =>
         \E touched \in {{}} \cup {{PartOf(file, i)} : i \in DOMAIN file.sheets} :
             /\ touched # {} => last'.mode = "replace"
             /\ \A part \in EntryNames(file.entries) \ (touched \cup {StylesPart}) :
                    ~IsDirectory(part) =>
                        /\ part \in EntryNames(file'.entries)
                        /\ ReadEntry(file'.entries, part) = ReadEntry(file.entries, part)]_vars

(* NamesOnce: a zip the extension writes has no name twice, also when the    *)
(* zip it was made from has.                                                 *)
NamesOnce ==
    [][file' # file => \A part \in EntryNames(file'.entries) : Len(file'.entries[part]) = 1]_vars
=============================================================================
