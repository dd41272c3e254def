---------------------------- MODULE XLSXPackage ----------------------------
(***************************************************************************)
(* An xlsx file as this extension sees it: a zip of named entries, three   *)
(* of which say which sheets there are (workbook.xml: name, sheetId and    *)
(* r:id of every sheet; workbook.xml.rels: what part an r:id stands for;   *)
(* [Content_Types].xml: an Override for every worksheet part), how         *)
(* XLXSWriter makes one from nothing, and how read_xlsx finds a sheet.     *)
(*                                                                         *)
(* A package is a record:                                                  *)
(*   sheets     <sheet> elements of workbook.xml, in tab order             *)
(*   rels       <Relationship> elements of workbook.xml.rels               *)
(*   overrides  worksheet parts with an <Override>, in file order          *)
(*   entries    the other zip entries: for every name the contents stored  *)
(*              under it, in directory order (a name may occur twice)      *)
(***************************************************************************)
EXTENDS Integers, Sequences, FiniteSets

CONSTANTS
    Names,     (* sheet names                                                *)
    NoName,    (* the empty sheet name                                       *)
    Unescape,  (* XLSXUnescapeXMLEntities, applied to a name that expat has  *)
               (* unescaped already                                          *)
    Tables,    (* contents of worksheet parts                                *)
    Blobs      (* contents of charts, images and whatever else is in there   *)

ASSUME NameAssumption == Names \subseteq DOMAIN Unescape

(* styles.xml is complete when it has every format and every cell style that *)
(* the writer needs, as the styles.xml the extension writes itself has.      *)
Bodies == Tables \cup Blobs
            \cup {"styles_complete", "styles_partial", "no_strings", "no_bytes"}

-----------------------------------------------------------------------------
(* Identifiers.  A relationship id is "rId" and digits, the digits written   *)
(* with a leading zero, or anything else a producer likes.                   *)

RelIds == [form : {"rId", "rId0", "other"}, n : Nat]
RelId(n) == [form |-> "rId", n |-> n]

(* A part name: a directory and a leaf, which is sheet<n>.xml, the same with *)
(* a leading zero, some other file, or (a zip directory entry) nothing.      *)
Parts == [dir : {"worksheets", "chartsheets", "xl"}, leaf : {"sheet", "sheet0", "file", ""}, n : Nat]
Worksheet(n)  == [dir |-> "worksheets", leaf |-> "sheet", n |-> n]
XLFile(n)     == [dir |-> "xl", leaf |-> "file", n |-> n]
StylesPart    == XLFile(0)
SharedStrings == XLFile(1)
IsDirectory(part) == part.leaf = ""
WorksheetsDir == [dir |-> "worksheets", leaf |-> "", n |-> 0]

RelTypes  == {"worksheet", "chartsheet", "other"}
Relations == [id : RelIds, type : RelTypes, target : Parts]
SheetEntries == [name : Names, rid : RelIds, id : Nat]     (* id 0: no sheetId *)
Contents == Seq(Bodies) \ {<< >>}

IsPackage(pkg) ==
    /\ pkg.sheets \in Seq(SheetEntries)
    /\ pkg.rels \in Seq(Relations)
    /\ pkg.overrides \in Seq(Parts)
    /\ DOMAIN pkg.entries \subseteq Parts
    /\ \A part \in DOMAIN pkg.entries : pkg.entries[part] \in Contents

(* No file at all; a zip with nothing in it is not an xlsx file.             *)
NoFile == [sheets |-> << >>, rels |-> << >>, overrides |-> << >>, entries |-> << >>]

Elements(s) == {s[i] : i \in DOMAIN s}

-----------------------------------------------------------------------------
(* ZipFileReader::TryOpenEntry: of entries with one name the last counts.    *)

EntryNames(entries) == DOMAIN entries
ReadEntry(entries, part) == entries[part][Len(entries[part])]

(* ZipFileWriter: BeginFile, Write, EndFile; nothing checks for duplicates.  *)
WriteEntry(entries, part, body) ==
    [name \in DOMAIN entries \cup {part} |->
        IF name # part THEN entries[name]
        ELSE IF part \in DOMAIN entries THEN Append(entries[part], body) ELSE <<body>>]

-----------------------------------------------------------------------------
(* ParseXLSXFileMeta.  Both maps it builds keep the last of equal keys.      *)

WorksheetRels(pkg) == {i \in DOMAIN pkg.rels : pkg.rels[i].type = "worksheet"}
Maximum(S) == CHOOSE x \in S : \A y \in S : y <= x

(* rid_to_sheet_map *)
HasWorksheet(pkg, rid) == \E i \in WorksheetRels(pkg) : pkg.rels[i].id = rid
SheetPath(pkg, rid) ==
    pkg.rels[Maximum({i \in WorksheetRels(pkg) : pkg.rels[i].id = rid})].target

(* The sheets that become candidates, and candidate_sheets[name].            *)
Candidates(pkg) == {i \in DOMAIN pkg.sheets : HasWorksheet(pkg, pkg.sheets[i].rid)}
CandidatesFor(pkg, name) ==
    {i \in Candidates(pkg) : Unescape[pkg.sheets[i].name] = Unescape[name]}
FoundSheet(pkg, name) == pkg.sheets[Maximum(CandidatesFor(pkg, name))]

(* primary_sheet: the first candidate, except that an empty name does not    *)
(* keep the next one from taking its place.                                  *)
PrimarySheet(pkg) ==
    LET named == {i \in Candidates(pkg) : pkg.sheets[i].name # NoName}
    IN  IF named = {} THEN NoName
        ELSE pkg.sheets[CHOOSE i \in named : \A j \in named : i <= j].name

(* The option sheet: an empty one asks for the primary sheet.                *)
Requested(pkg, name) == IF name = NoName THEN PrimarySheet(pkg) ELSE name
CanRead(pkg, name) ==
    LET want == Requested(pkg, name)
    IN  /\ CandidatesFor(pkg, want) # {}
        /\ SheetPath(pkg, FoundSheet(pkg, want).rid) \in EntryNames(pkg.entries)
ReadSheet(pkg, name) ==
    ReadEntry(pkg.entries, SheetPath(pkg, FoundSheet(pkg, Requested(pkg, name)).rid))

-----------------------------------------------------------------------------
(* XLXSWriter: the package of a single sheet, MODE 'create'.                 *)

FreshPackage(name, table) ==
    [sheets    |-> <<[name |-> name, rid |-> RelId(3), id |-> 1]>>,
     rels      |-> <<[id |-> RelId(1), type |-> "other", target |-> StylesPart],
                     [id |-> RelId(2), type |-> "other", target |-> SharedStrings],
                     [id |-> RelId(3), type |-> "worksheet", target |-> Worksheet(1)]>>,
     overrides |-> <<Worksheet(1)>>,
     entries   |-> [part \in {WorksheetsDir, Worksheet(1), StylesPart, SharedStrings} |->
                       CASE part = Worksheet(1)  -> <<table>>
                         [] part = StylesPart    -> <<"styles_complete">>
                         [] part = SharedStrings -> <<"no_strings">>
                         [] part = WorksheetsDir -> <<"no_bytes">>]]
=============================================================================
