---------------------------- MODULE XLSXAppender ----------------------------
(***************************************************************************)
(* XLSXAppender: the package that MODE 'append' and MODE 'replace' make    *)
(* from the package that is already there, and when they refuse to.        *)
(* Operators only; CopyStatements runs them one COPY after another.        *)
(*                                                                         *)
(* As everywhere in this development, a definition may have a mutant in    *)
(* front of it, a plausible bug under a longer name that nothing uses.     *)
(***************************************************************************)
EXTENDS XLSXPackage

CONSTANT Fold       (* ToLowerAscii: two names collide when it maps them to  *)
                    (* the same string                                       *)

ASSUME FoldAssumption == Names \subseteq DOMAIN Fold

-----------------------------------------------------------------------------
(* Constructor, phase 1: what it must be able to read.                       *)

(* ReadEntryAsString insists on styles.xml, WorkBookAppendParser on sheets   *)
(* that have a name.                                                         *)
IsReadable(pkg) ==
    /\ StylesPart \in EntryNames(pkg.entries)
    /\ \A s \in Elements(pkg.sheets) : s.name # NoName

StylesNeedPatch(pkg) == ReadEntry(pkg.entries, StylesPart) # "styles_complete"

-----------------------------------------------------------------------------
(* Constructor, phase 2: which sheet is meant, and the new sheet's names.    *)

CollisionsCaseSensitive(pkg, name) == {i \in DOMAIN pkg.sheets : pkg.sheets[i].name = name}
Collisions(pkg, name) == {i \in DOMAIN pkg.sheets : Fold[pkg.sheets[i].name] = Fold[name]}
CollisionIndex(pkg, name) ==
    CHOOSE i \in Collisions(pkg, name) : \A j \in Collisions(pkg, name) : i <= j

ParseRidNumber(rid) == IF rid.form \in {"rId", "rId0"} THEN rid.n ELSE 0

NewSheetId(pkg) == Maximum({0} \cup {s.id : s \in Elements(pkg.sheets)}) + 1

NewRidNumFromSheets(pkg) == Maximum({0} \cup {ParseRidNumber(s.rid) : s \in Elements(pkg.sheets)}) + 1
NewRidNum(pkg) == Maximum({0} \cup {ParseRidNumber(r.id) : r \in Elements(pkg.rels)}) + 1

(* Numbers taken by sheet<n>.xml of a worksheet relationship, whatever       *)
(* directory it is in.                                                       *)
UsedIndices(pkg) ==
    {r.target.n : r \in {q \in Elements(pkg.rels) :
                            q.type = "worksheet" /\ q.target.leaf \in {"sheet", "sheet0"}}}
NewIndex(pkg) ==
    CHOOSE i \in 1 .. Maximum({0} \cup UsedIndices(pkg)) + 1 :
        /\ i \notin UsedIndices(pkg)
        /\ \A j \in 1 .. i - 1 : j \in UsedIndices(pkg)

(* REPLACE resolves the sheet's relationship: the first with its id, of      *)
(* whatever type.                                                            *)
RelsOf(pkg, rid) == {i \in DOMAIN pkg.rels : pkg.rels[i].id = rid}
TargetOf(pkg, rid) ==
    pkg.rels[CHOOSE i \in RelsOf(pkg, rid) : \A j \in RelsOf(pkg, rid) : i <= j].target

CanAppend(pkg, name) == IsReadable(pkg) /\ Collisions(pkg, name) = {}
CanReplace(pkg, name) ==
    /\ IsReadable(pkg)
    /\ Collisions(pkg, name) # {}
    /\ LET rid == pkg.sheets[CollisionIndex(pkg, name)].rid
       IN  RelsOf(pkg, rid) # {} /\ TargetOf(pkg, rid).dir = "worksheets"
ReplacedPartByPosition(pkg, name) == Worksheet(CollisionIndex(pkg, name))
ReplacedPart(pkg, name) == TargetOf(pkg, pkg.sheets[CollisionIndex(pkg, name)].rid)

-----------------------------------------------------------------------------
(* Phase 3 and EmitMetadata: the entries of the new zip.                     *)

(* Copied verbatim: the last entry of every name, without directories and    *)
(* without what is written anew.                                             *)
Copied(entries, rewrite_set) ==
    {part \in DOMAIN entries : part \notin rewrite_set /\ ~IsDirectory(part)}
KeptFirst(entries, rewrite_set) == [part \in Copied(entries, rewrite_set) |-> <<entries[part][1]>>]
Kept(entries, rewrite_set) ==
    [part \in Copied(entries, rewrite_set) |-> <<ReadEntry(entries, part)>>]

RewriteStyles(pkg) == IF StylesNeedPatch(pkg) THEN {StylesPart} ELSE {}
EmitStyles(pkg, entries) ==
    IF StylesNeedPatch(pkg) THEN WriteEntry(entries, StylesPart, "styles_complete") ELSE entries

AppendToFront(pkg, name, table) ==
    LET part == Worksheet(NewIndex(pkg))
        rid  == RelId(NewRidNum(pkg))
    IN  [sheets    |-> <<[name |-> name, rid |-> rid, id |-> NewSheetId(pkg)]>> \o pkg.sheets,
         rels      |-> Append(pkg.rels, [id |-> rid, type |-> "worksheet", target |-> part]),
         overrides |-> Append(pkg.overrides, part),
         entries   |-> EmitStyles(pkg,
                         WriteEntry(Kept(pkg.entries, RewriteStyles(pkg)), part, table))]
AppendTo(pkg, name, table) ==
    LET part == Worksheet(NewIndex(pkg))
        rid  == RelId(NewRidNum(pkg))
    IN  [sheets    |-> Append(pkg.sheets, [name |-> name, rid |-> rid, id |-> NewSheetId(pkg)]),
         rels      |-> Append(pkg.rels, [id |-> rid, type |-> "worksheet", target |-> part]),
         overrides |-> Append(pkg.overrides, part),
         entries   |-> EmitStyles(pkg,
                         WriteEntry(Kept(pkg.entries, RewriteStyles(pkg)), part, table))]

ReplaceInKeepingTheOld(pkg, name, table) ==
    [sheets |-> pkg.sheets, rels |-> pkg.rels, overrides |-> pkg.overrides,
     entries |-> EmitStyles(pkg, WriteEntry(Kept(pkg.entries, RewriteStyles(pkg)),
                                            ReplacedPart(pkg, name), table))]
ReplaceIn(pkg, name, table) ==
    LET part == ReplacedPart(pkg, name)
    IN  [sheets |-> pkg.sheets, rels |-> pkg.rels, overrides |-> pkg.overrides,
         entries |-> EmitStyles(pkg,
                       WriteEntry(Kept(pkg.entries, {part} \cup RewriteStyles(pkg)), part, table))]
=============================================================================
