----------------------------- MODULE CopyProofs -----------------------------
(***************************************************************************)
(* What CopyProperties states, for any sheet names, any tables, any number *)
(* of statements and any workbook that is in order when the first one      *)
(* comes.                                                                  *)
(*                                                                         *)
(* A statement that changes the package adds a sheet or rewrites a part.   *)
(* What each of the two does is said once, element by element (AppendEffect*)
(* and ReplaceEffect, which rest on EntriesEffect for the zip and on       *)
(* NumbersAreNew for the ids and the part name); every property follows    *)
(* from those facts and from WorkbookOK of the package before.             *)
(***************************************************************************)
EXTENDS CopyProperties, OperatorProofs, SequenceTheorems

-----------------------------------------------------------------------------
(* Sequences, finite sets of numbers and the operators on packages.          *)

(* The elements of a sequence are finitely many.                             *)
LEMMA ElementsFinite ==
    ASSUME NEW S, NEW s \in Seq(S)
    PROVE  IsFiniteSet(Elements(s)) /\ Elements(s) \subseteq S
<1>1. PICK n \in Nat : DOMAIN s = 1 .. n
  BY LenProperties
<1>2. IsFiniteSet(DOMAIN s)
  BY <1>1, FS_Interval
<1>3. IsFiniteSet({s[i] : i \in DOMAIN s})
  <2>1. s = [i \in DOMAIN s |-> s[i]]
    BY <1>1
  <2> QED
    BY <1>2, <2>1, ImageFinite
<1>4. \A i \in DOMAIN s : s[i] \in S
  BY <1>1, ElementOfSeq
<1> QED
  BY <1>3, <1>4 DEF Elements

(* What Maximum returns for {0} and finitely many natural numbers.           *)
LEMMA MaximumBounds ==
    ASSUME NEW T \in SUBSET Nat, IsFiniteSet(T)
    PROVE  /\ Maximum({0} \cup T) \in Nat
           /\ \A n \in T : n <= Maximum({0} \cup T)
<1> DEFINE U == {0} \cup T
<1>1. IsFiniteSet(U)
  BY FS_Union, FS_Singleton
<1>2. U \in SUBSET Int /\ U \in SUBSET Nat /\ 0 \in U
  OBVIOUS
<1> HIDE DEF U
<1>3. \E n \in U : \A m \in U : m <= n
  BY <1>1, <1>2, GreatestExists
<1>4. Maximum(U) \in U /\ \A m \in U : m <= Maximum(U)
  BY <1>3 DEF Maximum
<1>5. T \subseteq U
  BY DEF U
<1> QED
  BY <1>2, <1>4, <1>5 DEF U

LEMMA MaximumOfOne ==
    ASSUME NEW n \in Int
    PROVE  Maximum({n}) = n
BY DEF Maximum

(* The names of the parts the writer gives are different parts.              *)
LEMMA PartNames ==
    /\ StylesPart \in Parts /\ SharedStrings \in Parts /\ WorksheetsDir \in Parts
    /\ StylesPart # SharedStrings /\ StylesPart # WorksheetsDir /\ SharedStrings # WorksheetsDir
    /\ StylesPart.dir = "xl" /\ SharedStrings.dir = "xl"
    /\ WorksheetsDir.leaf = "" /\ StylesPart.leaf = "file" /\ SharedStrings.leaf = "file"
    /\ \A n \in Nat : /\ Worksheet(n) \in Parts
                      /\ Worksheet(n).dir = "worksheets" /\ Worksheet(n).leaf = "sheet"
                      /\ Worksheet(n).n = n
                      /\ Worksheet(n) # StylesPart /\ Worksheet(n) # SharedStrings
                      /\ Worksheet(n) # WorksheetsDir
<1>1. \A n \in Nat : /\ Worksheet(n) \in Parts
                     /\ Worksheet(n).dir = "worksheets" /\ Worksheet(n).leaf = "sheet"
                     /\ Worksheet(n).n = n
  BY DEF Worksheet, Parts
<1>2. StylesPart \in Parts /\ SharedStrings \in Parts /\ WorksheetsDir \in Parts
  BY DEF StylesPart, SharedStrings, WorksheetsDir, XLFile, Parts
<1>3. /\ StylesPart.dir = "xl" /\ StylesPart.leaf = "file" /\ StylesPart.n = 0
      /\ SharedStrings.dir = "xl" /\ SharedStrings.leaf = "file" /\ SharedStrings.n = 1
      /\ WorksheetsDir.leaf = "" /\ WorksheetsDir.dir = "worksheets"
  BY DEF StylesPart, SharedStrings, WorksheetsDir, XLFile
<1>4. \A n : Worksheet(n).dir = "worksheets" /\ Worksheet(n).leaf = "sheet"
  BY DEF Worksheet
<1>5. StylesPart # SharedStrings /\ StylesPart # WorksheetsDir /\ SharedStrings # WorksheetsDir
  <2>1. 0 # 1
    OBVIOUS
  <2> QED
    BY <1>3, <2>1, Zenon
<1>6. \A n \in Nat : /\ Worksheet(n) # StylesPart /\ Worksheet(n) # SharedStrings
                     /\ Worksheet(n) # WorksheetsDir
  BY <1>1, <1>3, Zenon
<1> QED
  BY <1>1, <1>2, <1>3, <1>5, <1>6, Zenon

(* What IsPackage says of the elements.                                      *)
LEMMA PackageTyped ==
    ASSUME NEW pkg, IsPackage(pkg)
    PROVE  /\ \E n \in Nat : n = Len(pkg.sheets) /\ DOMAIN pkg.sheets = 1 .. n
           /\ \E n \in Nat : n = Len(pkg.rels) /\ DOMAIN pkg.rels = 1 .. n
           /\ \E n \in Nat : n = Len(pkg.overrides) /\ DOMAIN pkg.overrides = 1 .. n
           /\ \A i \in DOMAIN pkg.sheets :
                 /\ pkg.sheets[i] \in SheetEntries /\ pkg.sheets[i].name \in Names
                 /\ pkg.sheets[i].rid \in RelIds /\ pkg.sheets[i].id \in Nat
           /\ \A k \in DOMAIN pkg.rels :
                 /\ pkg.rels[k] \in Relations /\ pkg.rels[k].id \in RelIds
                 /\ pkg.rels[k].target \in Parts
           /\ \A o \in DOMAIN pkg.overrides : pkg.overrides[o] \in Parts
<1>1. pkg.sheets \in Seq(SheetEntries) /\ pkg.rels \in Seq(Relations) /\ pkg.overrides \in Seq(Parts)
  BY DEF IsPackage
<1>2. \A i \in DOMAIN pkg.sheets : pkg.sheets[i] \in SheetEntries
  BY <1>1, LenProperties, ElementOfSeq
<1>3. \A k \in DOMAIN pkg.rels : pkg.rels[k] \in Relations
  BY <1>1, LenProperties, ElementOfSeq
<1>4. \A o \in DOMAIN pkg.overrides : pkg.overrides[o] \in Parts
  BY <1>1, LenProperties, ElementOfSeq
<1>5. \A e \in SheetEntries : e.name \in Names /\ e.rid \in RelIds /\ e.id \in Nat
  BY DEF SheetEntries
<1>6. \A r \in Relations : r.id \in RelIds /\ r.target \in Parts
  BY DEF Relations
<1> QED
  BY <1>1, <1>2, <1>3, <1>4, <1>5, <1>6, LenProperties

(* The last entry of a name is one of its bodies.                            *)
LEMMA ReadEntryTyped ==
    ASSUME NEW pkg, IsPackage(pkg), NEW part \in DOMAIN pkg.entries
    PROVE  ReadEntry(pkg.entries, part) \in Bodies
<1>1. pkg.entries[part] \in Seq(Bodies) /\ pkg.entries[part] # << >>
  BY DEF IsPackage, Contents
<1>2. Len(pkg.entries[part]) \in 1 .. Len(pkg.entries[part])
  BY <1>1, EmptySeq, LenProperties
<1> QED
  BY <1>1, <1>2, ElementOfSeq DEF ReadEntry

(* With relationship ids that differ, the relationship of an id, and         *)
(* whichever of them the reader and the writer take, is that one.            *)
LEMMA RelationFound ==
    ASSUME NEW pkg, IsPackage(pkg), RelIdsDiffer(pkg), NEW k \in DOMAIN pkg.rels
    PROVE  LET rid == pkg.rels[k].id
           IN  /\ RelsOf(pkg, rid) = {k}
               /\ TargetOf(pkg, rid) = pkg.rels[k].target
               /\ k \in WorksheetRels(pkg) =>
                      HasWorksheet(pkg, rid) /\ SheetPath(pkg, rid) = pkg.rels[k].target
<1> DEFINE rid == pkg.rels[k].id
<1>1. k \in Int
  BY PackageTyped
<1>2. RelsOf(pkg, rid) = {k}
  BY DEF RelsOf, RelIdsDiffer
<1>3. TargetOf(pkg, rid) = pkg.rels[k].target
  <2>1. (CHOOSE i \in {k} : \A j \in {k} : i <= j) = k
    BY <1>1
  <2> QED
    BY <1>2, <2>1 DEF TargetOf
<1>4. ASSUME k \in WorksheetRels(pkg)
      PROVE  HasWorksheet(pkg, rid) /\ SheetPath(pkg, rid) = pkg.rels[k].target
  <2>1. {i \in WorksheetRels(pkg) : pkg.rels[i].id = rid} = {k}
    BY <1>4 DEF WorksheetRels, RelIdsDiffer
  <2>2. SheetPath(pkg, rid) = pkg.rels[k].target
    BY <1>1, <2>1, MaximumOfOne DEF SheetPath
  <2> QED
    BY <1>4, <2>2 DEF HasWorksheet
<1> QED
  BY <1>2, <1>3, <1>4

(* The part of a sheet is an entry of the zip, and the target of the one     *)
(* relationship with the sheet's r:id.                                       *)
LEMMA SheetPart ==
    ASSUME NEW pkg, IsPackage(pkg), PackageOK(pkg), NEW i \in DOMAIN pkg.sheets
    PROVE  /\ \E k \in DOMAIN pkg.rels : /\ pkg.rels[k].id = pkg.sheets[i].rid
                                         /\ pkg.rels[k].target = PartOf(pkg, i)
           /\ PartOf(pkg, i) \in DOMAIN pkg.entries
           /\ PartOf(pkg, i) # StylesPart /\ ~IsDirectory(PartOf(pkg, i))
           /\ PartOf(pkg, i) \in Parts
<1>1. PICK k \in DOMAIN pkg.rels :
            /\ pkg.rels[k].id = pkg.sheets[i].rid
            /\ pkg.rels[k].target \in EntryNames(pkg.entries)
            /\ pkg.rels[k].target # StylesPart
            /\ ~IsDirectory(pkg.rels[k].target)
  BY DEF PackageOK, SheetsResolve
<1>2. PartOf(pkg, i) = pkg.rels[k].target
  BY <1>1, RelationFound DEF PackageOK, PartOf
<1>3. pkg.rels[k].target \in Parts
  BY PackageTyped
<1> QED
  BY <1>1, <1>2, <1>3 DEF EntryNames

(* Two sheets have two parts.                                                *)
LEMMA SheetPartsDiffer ==
    ASSUME NEW pkg, IsPackage(pkg), PackageOK(pkg),
           NEW i \in DOMAIN pkg.sheets, NEW j \in DOMAIN pkg.sheets,
           PartOf(pkg, i) = PartOf(pkg, j)
    PROVE  i = j
<1>1. PICK k \in DOMAIN pkg.rels : pkg.rels[k].id = pkg.sheets[i].rid /\ pkg.rels[k].target = PartOf(pkg, i)
  BY SheetPart
<1>2. PICK l \in DOMAIN pkg.rels : pkg.rels[l].id = pkg.sheets[j].rid /\ pkg.rels[l].target = PartOf(pkg, j)
  BY SheetPart
<1>3. k = l
  BY <1>1, <1>2 DEF PackageOK, TargetsDiffer
<1> QED
  BY <1>1, <1>2, <1>3 DEF PackageOK, SheetRidsDiffer

-----------------------------------------------------------------------------
(* The numbers of a new sheet.                                               *)

(* The sheetId is larger than every sheetId, the r:id and the part name are  *)
(* not yet in the workbook.                                                  *)
LEMMA NumbersAreNew ==
    ASSUME NEW pkg, IsPackage(pkg), PackageOK(pkg)
    PROVE  /\ NewSheetId(pkg) \in Nat \ {0}
           /\ \A i \in DOMAIN pkg.sheets : pkg.sheets[i].id # NewSheetId(pkg)
           /\ RelId(NewRidNum(pkg)) \in RelIds
           /\ \A k \in DOMAIN pkg.rels : pkg.rels[k].id # RelId(NewRidNum(pkg))
           /\ \A i \in DOMAIN pkg.sheets : pkg.sheets[i].rid # RelId(NewRidNum(pkg))
           /\ NewIndex(pkg) \in Nat
           /\ Worksheet(NewIndex(pkg)) \notin DOMAIN pkg.entries
           /\ \A o \in DOMAIN pkg.overrides : pkg.overrides[o] # Worksheet(NewIndex(pkg))
           /\ \A k \in DOMAIN pkg.rels : pkg.rels[k].target # Worksheet(NewIndex(pkg))
<1> USE PackageTyped
<1>1. /\ IsFiniteSet(Elements(pkg.sheets)) /\ Elements(pkg.sheets) \subseteq SheetEntries
      /\ IsFiniteSet(Elements(pkg.rels)) /\ Elements(pkg.rels) \subseteq Relations
  BY ElementsFinite DEF IsPackage
<1>2. /\ NewSheetId(pkg) \in Nat \ {0}
      /\ \A i \in DOMAIN pkg.sheets : pkg.sheets[i].id # NewSheetId(pkg)
  <2> DEFINE Ids == {s.id : s \in Elements(pkg.sheets)}
  <2>1. IsFiniteSet(Ids)
    <3> DEFINE f == [s \in Elements(pkg.sheets) |-> s.id]
    <3>1. Ids = {f[s] : s \in Elements(pkg.sheets)} /\ f = [s \in Elements(pkg.sheets) |-> f[s]]
      OBVIOUS
    <3> HIDE DEF f, Ids
    <3> QED
      BY <1>1, <3>1, ImageFinite
  <2>2. Ids \in SUBSET Nat
    BY <1>1 DEF SheetEntries
  <2>3. \A i \in DOMAIN pkg.sheets : pkg.sheets[i].id \in Ids
    BY DEF Elements
  <2>4. NewSheetId(pkg) = Maximum({0} \cup Ids) + 1
    BY DEF NewSheetId
  <2> HIDE DEF Ids
  <2>5. Maximum({0} \cup Ids) \in Nat /\ \A n \in Ids : n <= Maximum({0} \cup Ids)
    BY <2>1, <2>2, MaximumBounds
  <2>6. PICK top \in Nat : top = Maximum({0} \cup Ids) /\ \A n \in Ids : n <= top
    BY <2>5
  <2>7. top + 1 \in Nat \ {0} /\ ~(top + 1 <= top)
    OBVIOUS
  <2> QED
    BY <2>3, <2>4, <2>6, <2>7, Zenon
<1>3. /\ RelId(NewRidNum(pkg)) \in RelIds
      /\ \A k \in DOMAIN pkg.rels : pkg.rels[k].id # RelId(NewRidNum(pkg))
  <2> DEFINE Rids == {ParseRidNumber(r.id) : r \in Elements(pkg.rels)}
  <2>1. IsFiniteSet(Rids)
    <3> DEFINE f == [r \in Elements(pkg.rels) |-> ParseRidNumber(r.id)]
    <3>1. Rids = {f[r] : r \in Elements(pkg.rels)} /\ f = [r \in Elements(pkg.rels) |-> f[r]]
      OBVIOUS
    <3> HIDE DEF f, Rids
    <3> QED
      BY <1>1, <3>1, ImageFinite
  <2>2. Rids \in SUBSET Nat
    BY <1>1 DEF Relations, RelIds, ParseRidNumber
  <2>3. \A k \in DOMAIN pkg.rels : ParseRidNumber(pkg.rels[k].id) \in Rids
    BY DEF Elements
  <2>4. NewRidNum(pkg) = Maximum({0} \cup Rids) + 1
    BY DEF NewRidNum
  <2> HIDE DEF Rids
  <2>5. Maximum({0} \cup Rids) \in Nat /\ \A n \in Rids : n <= Maximum({0} \cup Rids)
    BY <2>1, <2>2, MaximumBounds
  <2>6. NewRidNum(pkg) \in Nat /\ NewRidNum(pkg) \notin Rids
    <3>1. PICK top \in Nat : top = Maximum({0} \cup Rids) /\ \A n \in Rids : n <= top
      BY <2>5
    <3>2. top + 1 \in Nat /\ ~(top + 1 <= top)
      OBVIOUS
    <3> QED
      BY <2>4, <3>1, <3>2, Zenon
  <2>7. ParseRidNumber(RelId(NewRidNum(pkg))) = NewRidNum(pkg)
    BY DEF ParseRidNumber, RelId
  <2>8. RelId(NewRidNum(pkg)) \in RelIds
    BY <2>6 DEF RelId, RelIds
  <2> QED
    BY <2>3, <2>6, <2>7, <2>8
<1>4. \A i \in DOMAIN pkg.sheets : pkg.sheets[i].rid # RelId(NewRidNum(pkg))
  BY <1>3, SheetPart
<1>5. /\ NewIndex(pkg) \in Nat
      /\ NewIndex(pkg) \notin UsedIndices(pkg)
  <2> DEFINE Sheetlike == {q \in Elements(pkg.rels) :
                               q.type = "worksheet" /\ q.target.leaf \in {"sheet", "sheet0"}}
             Used == UsedIndices(pkg)
             top  == Maximum({0} \cup Used)
  <2>1. IsFiniteSet(Sheetlike)
    BY <1>1, FS_Subset
  <2>2. IsFiniteSet({r.target.n : r \in Sheetlike})
    <3> DEFINE f == [r \in Sheetlike |-> r.target.n]
    <3> HIDE DEF Sheetlike
    <3>1. {r.target.n : r \in Sheetlike} = {f[r] : r \in Sheetlike} /\ f = [r \in Sheetlike |-> f[r]]
      OBVIOUS
    <3> HIDE DEF f
    <3> QED
      BY <2>1, <3>1, ImageFinite
  <2>3. Used = {r.target.n : r \in Sheetlike} /\ Used \in SUBSET Nat
    <3>1. Used = {r.target.n : r \in Sheetlike}
      BY DEF UsedIndices
    <3>2. \A r \in Sheetlike : r.target.n \in Nat
      BY <1>1 DEF Relations, Parts
    <3> QED
      BY <3>1, <3>2
  <2> HIDE DEF Sheetlike, Used
  <2>4. top \in Nat /\ \A n \in Used : n <= top
    BY <2>2, <2>3, MaximumBounds
  <2> HIDE DEF top
  <2> DEFINE Free == {n \in Nat : n >= 1 /\ n \notin Used}
  <2>5. top + 1 \in Free
    BY <2>3, <2>4
  <2>6. PICK i \in Free : \A m \in Free : i <= m
    <3>1. Free \in SUBSET Nat /\ Free # {}
      BY <2>5
    <3> HIDE DEF Free
    <3> QED
      BY <3>1, LeastExists
  <2>7. i \in 1 .. top + 1 /\ i \notin Used
    BY <2>4, <2>5, <2>6
  <2>8. \A j \in 1 .. i - 1 : j \in Used
    BY <2>6
  <2>9. NewIndex(pkg) = CHOOSE n \in 1 .. top + 1 :
                            /\ n \notin Used
                            /\ \A j \in 1 .. n - 1 : j \in Used
    BY DEF NewIndex, top, Used
  <2>10. NewIndex(pkg) \in 1 .. top + 1 /\ NewIndex(pkg) \notin Used
    BY <2>7, <2>8, <2>9
  <2> QED
    BY <2>4, <2>10 DEF Used
<1>6. ASSUME NEW part \in EntryNames(pkg.entries) \cup Elements(pkg.overrides)
                              \cup {r.target : r \in Elements(pkg.rels)},
             part = Worksheet(NewIndex(pkg))
      PROVE  FALSE
  <2>1. part.dir = "worksheets" /\ part.leaf = "sheet" /\ part.n = NewIndex(pkg)
    BY <1>6 DEF Worksheet
  <2>2. PICK k \in WorksheetRels(pkg) : pkg.rels[k].target = part
    BY <2>1 DEF PackageOK, NoOrphans
  <2>3. k \in DOMAIN pkg.rels /\ pkg.rels[k].type = "worksheet"
    BY DEF WorksheetRels
  <2>4. part.n \in UsedIndices(pkg)
    BY <2>1, <2>2, <2>3 DEF UsedIndices, Elements
  <2> QED
    BY <1>5, <2>1, <2>4
<1> QED
  BY <1>2, <1>3, <1>4, <1>5, <1>6 DEF Elements, EntryNames

-----------------------------------------------------------------------------
(* What the statements do to a package.                                      *)

(* The zip after a statement that writes table to part: every name once, no  *)
(* directories, and but for styles.xml all else as it was.                   *)
Rewritten(old, new, part, table) ==
    /\ DOMAIN new = {p \in DOMAIN old : ~IsDirectory(p)} \cup {part}
    /\ \A p \in DOMAIN new : Len(new[p]) = 1 /\ new[p] \in Contents
    /\ ReadEntry(new, part) = table
    /\ \A p \in DOMAIN new \ {part, StylesPart} : ReadEntry(new, p) = ReadEntry(old, p)

LEMMA EntriesEffect ==
    ASSUME NEW pkg, IsPackage(pkg), StylesPart \in DOMAIN pkg.entries,
           NEW part \in Parts, part # StylesPart, NEW table \in Tables
    PROVE  Rewritten(pkg.entries,
                     EmitStyles(pkg, WriteEntry(Kept(pkg.entries, {part} \cup RewriteStyles(pkg)),
                                                part, table)),
                     part, table)
<1> DEFINE old  == pkg.entries
           kept == Kept(old, {part} \cup RewriteStyles(pkg))
           mid  == WriteEntry(kept, part, table)
           new  == EmitStyles(pkg, mid)
<1>1. /\ DOMAIN kept = {p \in DOMAIN old : p \notin {part} \cup RewriteStyles(pkg) /\ ~IsDirectory(p)}
      /\ \A p \in DOMAIN kept : kept[p] = <<ReadEntry(old, p)>>
  BY DEF Kept, Copied
<1> HIDE DEF kept
<1>2. /\ DOMAIN mid = DOMAIN kept \cup {part}
      /\ mid[part] = <<table>>
      /\ \A p \in DOMAIN kept : mid[p] = <<ReadEntry(old, p)>>
  BY <1>1 DEF WriteEntry
<1> HIDE DEF mid
<1>3. ~IsDirectory(StylesPart)
  BY PartNames DEF IsDirectory
<1>4. /\ DOMAIN new = {p \in DOMAIN old : ~IsDirectory(p)} \cup {part}
      /\ new[part] = <<table>>
      /\ new[StylesPart] \in {<<ReadEntry(old, StylesPart)>>, <<"styles_complete">>}
      /\ \A p \in DOMAIN new \ {part, StylesPart} : new[p] = <<ReadEntry(old, p)>>
  <2>1. CASE StylesNeedPatch(pkg)
    <3>1. RewriteStyles(pkg) = {StylesPart} /\ new = WriteEntry(mid, StylesPart, "styles_complete")
      BY <2>1 DEF RewriteStyles, EmitStyles
    <3>2. StylesPart \notin DOMAIN mid
      BY <1>1, <1>2, <3>1
    <3>3. /\ DOMAIN new = DOMAIN mid \cup {StylesPart}
          /\ new[StylesPart] = <<"styles_complete">>
          /\ \A p \in DOMAIN mid : new[p] = mid[p]
      BY <3>1, <3>2 DEF WriteEntry
    <3>4. DOMAIN new = {p \in DOMAIN old : ~IsDirectory(p)} \cup {part}
      BY <1>1, <1>2, <1>3, <3>1, <3>3
    <3> QED
      BY <1>1, <1>2, <3>1, <3>3, <3>4
  <2>2. CASE ~StylesNeedPatch(pkg)
    <3>1. RewriteStyles(pkg) = {} /\ new = mid
      BY <2>2 DEF RewriteStyles, EmitStyles
    <3>2. DOMAIN kept = {p \in DOMAIN old : p # part /\ ~IsDirectory(p)}
      BY <1>1, <3>1
    <3>3. StylesPart \in DOMAIN kept
      BY <1>3, <3>2
    <3> QED
      BY <1>2, <3>1, <3>2, <3>3
  <2> QED
    BY <2>1, <2>2
<1> HIDE DEF new
<1>5. \A p \in DOMAIN new : \E b \in Bodies : new[p] = <<b>>
  <2>1. \A p \in DOMAIN old : ReadEntry(old, p) \in Bodies
    BY ReadEntryTyped
  <2>2. "styles_complete" \in Bodies /\ table \in Bodies
    BY DEF Bodies
  <2>3. \A p \in DOMAIN new : p = part \/ p = StylesPart \/ p \in DOMAIN old
    BY <1>4
  <2> QED
    BY <1>4, <2>1, <2>2, <2>3
<1>6. \A b \in Bodies : /\ <<b>> \in Contents /\ Len(<<b>>) = 1 /\ <<b>>[1] = b
  BY DEF Contents
<1>7. \A p \in DOMAIN new : Len(new[p]) = 1 /\ new[p] \in Contents /\ ReadEntry(new, p) = new[p][1]
  BY <1>5, <1>6 DEF ReadEntry
<1>8. part \in DOMAIN new /\ ReadEntry(new, part) = table
  BY <1>4, <1>7
<1>9. \A p \in DOMAIN new \ {part, StylesPart} : ReadEntry(new, p) = ReadEntry(old, p)
  BY <1>4, <1>7
<1> QED
  BY <1>4, <1>7, <1>8, <1>9 DEF Rewritten, new, mid, kept

(* APPEND: one sheet, one relationship and one override behind the others,   *)
(* with a name, numbers and a part that nothing had.                         *)
LEMMA AppendEffect ==
    ASSUME NEW pkg, IsPackage(pkg), PackageOK(pkg), NEW name \in Names, NEW table \in Tables,
           CanAppend(pkg, name)
    PROVE  LET new  == AppendTo(pkg, name, table)
               part == Worksheet(NewIndex(pkg))
               rid  == RelId(NewRidNum(pkg))
               ns   == Len(pkg.sheets)
               nr   == Len(pkg.rels)
               no   == Len(pkg.overrides)
           IN  /\ IsPackage(new)
               /\ DOMAIN new.sheets = 1 .. ns + 1 /\ DOMAIN pkg.sheets = 1 .. ns
               /\ \A i \in 1 .. ns : new.sheets[i] = pkg.sheets[i]
               /\ new.sheets[ns + 1] = [name |-> name, rid |-> rid, id |-> NewSheetId(pkg)]
               /\ DOMAIN new.rels = 1 .. nr + 1 /\ DOMAIN pkg.rels = 1 .. nr
               /\ \A k \in 1 .. nr : new.rels[k] = pkg.rels[k]
               /\ new.rels[nr + 1] = [id |-> rid, type |-> "worksheet", target |-> part]
               /\ DOMAIN new.overrides = 1 .. no + 1 /\ DOMAIN pkg.overrides = 1 .. no
               /\ \A o \in 1 .. no : new.overrides[o] = pkg.overrides[o]
               /\ new.overrides[no + 1] = part
               /\ Rewritten(pkg.entries, new.entries, part, table)
               /\ \A i \in 1 .. ns : Fold[pkg.sheets[i].name] # Fold[name]
               /\ new.sheets = Append(pkg.sheets, [name |-> name, rid |-> rid, id |-> NewSheetId(pkg)])
<1> DEFINE new  == AppendTo(pkg, name, table)
           part == Worksheet(NewIndex(pkg))
           rid  == RelId(NewRidNum(pkg))
           sheet == [name |-> name, rid |-> rid, id |-> NewSheetId(pkg)]
           rel   == [id |-> rid, type |-> "worksheet", target |-> part]
<1>1. part \in Parts /\ part # StylesPart /\ part \notin DOMAIN pkg.entries
  BY NumbersAreNew, PartNames
<1>2. sheet \in SheetEntries /\ rel \in Relations
  BY NumbersAreNew, <1>1 DEF SheetEntries, Relations, RelTypes
<1>3. pkg.sheets \in Seq(SheetEntries) /\ pkg.rels \in Seq(Relations) /\ pkg.overrides \in Seq(Parts)
  BY DEF IsPackage
<1>4. /\ new.sheets = Append(pkg.sheets, sheet)
      /\ new.rels = Append(pkg.rels, rel)
      /\ new.overrides = Append(pkg.overrides, part)
      /\ new.entries = EmitStyles(pkg, WriteEntry(Kept(pkg.entries, RewriteStyles(pkg)), part, table))
  BY DEF AppendTo
<1> HIDE DEF new, sheet, rel
<1>5. Kept(pkg.entries, RewriteStyles(pkg)) = Kept(pkg.entries, {part} \cup RewriteStyles(pkg))
  <2>1. Copied(pkg.entries, RewriteStyles(pkg)) = Copied(pkg.entries, {part} \cup RewriteStyles(pkg))
    BY <1>1 DEF Copied
  <2> QED
    BY <2>1 DEF Kept
<1>6. StylesPart \in DOMAIN pkg.entries /\ Collisions(pkg, name) = {}
  BY DEF CanAppend, IsReadable, EntryNames
<1>7. Rewritten(pkg.entries, new.entries, part, table)
  BY <1>1, <1>4, <1>5, <1>6, EntriesEffect
<1>8. /\ new.sheets \in Seq(SheetEntries) /\ Len(new.sheets) = Len(pkg.sheets) + 1
      /\ \A i \in 1 .. Len(pkg.sheets) : new.sheets[i] = pkg.sheets[i]
      /\ new.sheets[Len(pkg.sheets) + 1] = sheet
  BY <1>2, <1>3, <1>4, AppendProperties
<1>9. /\ new.rels \in Seq(Relations) /\ Len(new.rels) = Len(pkg.rels) + 1
      /\ \A i \in 1 .. Len(pkg.rels) : new.rels[i] = pkg.rels[i]
      /\ new.rels[Len(pkg.rels) + 1] = rel
  BY <1>2, <1>3, <1>4, AppendProperties
<1>10. /\ new.overrides \in Seq(Parts) /\ Len(new.overrides) = Len(pkg.overrides) + 1
       /\ \A i \in 1 .. Len(pkg.overrides) : new.overrides[i] = pkg.overrides[i]
       /\ new.overrides[Len(pkg.overrides) + 1] = part
  BY <1>1, <1>3, <1>4, AppendProperties
<1>11. IsPackage(new)
  <2>1. DOMAIN new.entries \subseteq Parts
    BY <1>1, <1>7 DEF Rewritten, IsPackage
  <2> QED
    BY <1>7, <1>8, <1>9, <1>10, <2>1 DEF IsPackage, Rewritten
<1>12. \A i \in DOMAIN pkg.sheets : Fold[pkg.sheets[i].name] # Fold[name]
  BY <1>6 DEF Collisions
<1>13. /\ DOMAIN pkg.sheets = 1 .. Len(pkg.sheets) /\ DOMAIN new.sheets = 1 .. Len(pkg.sheets) + 1
       /\ DOMAIN pkg.rels = 1 .. Len(pkg.rels) /\ DOMAIN new.rels = 1 .. Len(pkg.rels) + 1
       /\ DOMAIN pkg.overrides = 1 .. Len(pkg.overrides)
       /\ DOMAIN new.overrides = 1 .. Len(pkg.overrides) + 1
  BY <1>3, <1>8, <1>9, <1>10, LenProperties
<1> QED
  BY <1>4, <1>7, <1>8, <1>9, <1>10, <1>11, <1>12, <1>13 DEF new, sheet, rel

(* What most of the steps below need of it.                                  *)
LEMMA AppendShape ==
    ASSUME NEW pkg, IsPackage(pkg), PackageOK(pkg), NEW name \in Names, NEW table \in Tables,
           CanAppend(pkg, name)
    PROVE  LET new == AppendTo(pkg, name, table)
               ns  == Len(pkg.sheets)
           IN  /\ IsPackage(new)
               /\ DOMAIN new.sheets = 1 .. ns + 1 /\ DOMAIN pkg.sheets = 1 .. ns
               /\ \A i \in 1 .. ns : new.sheets[i] = pkg.sheets[i]
               /\ \A i \in 1 .. ns : Fold[pkg.sheets[i].name] # Fold[name]
               /\ new.sheets[ns + 1].name = name
               /\ Rewritten(pkg.entries, new.entries, Worksheet(NewIndex(pkg)), table)
<1> DEFINE new  == AppendTo(pkg, name, table)
           part == Worksheet(NewIndex(pkg))
           rid  == RelId(NewRidNum(pkg))
<1>0. /\ DOMAIN new.sheets = 1 .. Len(pkg.sheets) + 1 /\ DOMAIN pkg.sheets = 1 .. Len(pkg.sheets)
      /\ \A i \in 1 .. Len(pkg.sheets) : new.sheets[i] = pkg.sheets[i]
      /\ new.sheets[Len(pkg.sheets) + 1] = [name |-> name, rid |-> rid, id |-> NewSheetId(pkg)]
      /\ DOMAIN new.rels = 1 .. Len(pkg.rels) + 1 /\ DOMAIN pkg.rels = 1 .. Len(pkg.rels)
      /\ \A k \in 1 .. Len(pkg.rels) : new.rels[k] = pkg.rels[k]
      /\ new.rels[Len(pkg.rels) + 1] = [id |-> rid, type |-> "worksheet", target |-> part]
      /\ DOMAIN new.overrides = 1 .. Len(pkg.overrides) + 1
      /\ DOMAIN pkg.overrides = 1 .. Len(pkg.overrides)
      /\ \A o \in 1 .. Len(pkg.overrides) : new.overrides[o] = pkg.overrides[o]
      /\ new.overrides[Len(pkg.overrides) + 1] = part
      /\ \A i \in 1 .. Len(pkg.sheets) : Fold[pkg.sheets[i].name] # Fold[name]
      /\ IsPackage(new) /\ Rewritten(pkg.entries, new.entries, part, table)
  BY SMTT(30), AppendEffect
<1> HIDE DEF new, part, rid
<1>1. new.sheets[Len(pkg.sheets) + 1].name = name
  BY <1>0
<1> QED
  BY <1>0, <1>1 DEF new, part

(* REPLACE: the part of one sheet, the one the name is taken by.             *)
LEMMA ReplaceEffect ==
    ASSUME NEW pkg, IsPackage(pkg), PackageOK(pkg), NEW name \in Names, NEW table \in Tables,
           CanReplace(pkg, name)
    PROVE  LET new == ReplaceIn(pkg, name, table)
               i   == CollisionIndex(pkg, name)
           IN  /\ IsPackage(new)
               /\ new.sheets = pkg.sheets /\ new.rels = pkg.rels /\ new.overrides = pkg.overrides
               /\ i \in DOMAIN pkg.sheets /\ Fold[pkg.sheets[i].name] = Fold[name]
               /\ PartOf(pkg, i).dir = "worksheets"
               /\ Rewritten(pkg.entries, new.entries, PartOf(pkg, i), table)
<1> DEFINE new  == ReplaceIn(pkg, name, table)
           i    == CollisionIndex(pkg, name)
           part == PartOf(pkg, i)
<1>1. i \in DOMAIN pkg.sheets /\ Fold[pkg.sheets[i].name] = Fold[name]
  <2>1. Collisions(pkg, name) \in SUBSET Nat /\ Collisions(pkg, name) # {}
    BY PackageTyped DEF Collisions, CanReplace
  <2>2. i \in Collisions(pkg, name)
    BY <2>1, LeastExists DEF CollisionIndex
  <2> QED
    BY <2>2 DEF Collisions
<1>2. part \in Parts /\ part # StylesPart /\ part.dir = "worksheets" /\ part = ReplacedPart(pkg, name)
  <2>1. part = ReplacedPart(pkg, name)
    BY DEF PartOf, ReplacedPart
  <2>2. part.dir = "worksheets"
    BY DEF CanReplace, PartOf
  <2> QED
    BY <1>1, <2>1, <2>2, SheetPart
<1>3. /\ new.sheets = pkg.sheets /\ new.rels = pkg.rels /\ new.overrides = pkg.overrides
      /\ new.entries = EmitStyles(pkg, WriteEntry(Kept(pkg.entries, {part} \cup RewriteStyles(pkg)),
                                                  part, table))
  BY <1>2 DEF ReplaceIn
<1> HIDE DEF new, part, i
<1>4. StylesPart \in DOMAIN pkg.entries
  BY DEF CanReplace, IsReadable, EntryNames
<1>5. Rewritten(pkg.entries, new.entries, part, table)
  BY <1>2, <1>3, <1>4, EntriesEffect
<1>6. IsPackage(new)
  <2>1. DOMAIN new.entries \subseteq Parts
    BY <1>2, <1>5 DEF Rewritten, IsPackage
  <2> QED
    BY <1>3, <1>5, <2>1 DEF IsPackage, Rewritten
<1> QED
  BY <1>1, <1>2, <1>3, <1>5, <1>6 DEF new, part, i

(* CREATE: one sheet, its part, styles and shared strings.                   *)
LEMMA FreshEffect ==
    ASSUME NEW name \in Names, NEW table \in Tables
    PROVE  LET new == FreshPackage(name, table)
           IN  /\ IsPackage(new)
               /\ DOMAIN new.sheets = {1}
               /\ new.sheets = <<[name |-> name, rid |-> RelId(3), id |-> 1]>>
               /\ DOMAIN new.rels = {1, 2, 3}
               /\ new.rels[1] = [id |-> RelId(1), type |-> "other", target |-> StylesPart]
               /\ new.rels[2] = [id |-> RelId(2), type |-> "other", target |-> SharedStrings]
               /\ new.rels[3] = [id |-> RelId(3), type |-> "worksheet", target |-> Worksheet(1)]
               /\ new.overrides = <<Worksheet(1)>> /\ DOMAIN new.overrides = {1}
               /\ DOMAIN new.entries = {WorksheetsDir, Worksheet(1), StylesPart, SharedStrings}
               /\ \A part \in DOMAIN new.entries : Len(new.entries[part]) = 1
               /\ ReadEntry(new.entries, Worksheet(1)) = table
<1> DEFINE new == FreshPackage(name, table)
<1>1. /\ new.sheets = <<[name |-> name, rid |-> RelId(3), id |-> 1]>>
      /\ new.rels = <<[id |-> RelId(1), type |-> "other", target |-> StylesPart],
                      [id |-> RelId(2), type |-> "other", target |-> SharedStrings],
                      [id |-> RelId(3), type |-> "worksheet", target |-> Worksheet(1)]>>
      /\ new.overrides = <<Worksheet(1)>>
      /\ new.entries = [part \in {WorksheetsDir, Worksheet(1), StylesPart, SharedStrings} |->
                       CASE part = Worksheet(1)  -> <<table>>
                         [] part = StylesPart    -> <<"styles_complete">>
                         [] part = SharedStrings -> <<"no_strings">>
                         [] part = WorksheetsDir -> <<"no_bytes">>]
  BY DEF FreshPackage
<1> HIDE DEF new
<1>2. Worksheet(1) \in Parts /\ Worksheet(1) \notin {StylesPart, SharedStrings, WorksheetsDir}
  BY PartNames
<1>3. \A n \in Nat : RelId(n) \in RelIds
  BY DEF RelId, RelIds
<1>4. new.sheets \in Seq(SheetEntries) /\ DOMAIN new.sheets = {1}
  <2>1. [name |-> name, rid |-> RelId(3), id |-> 1] \in SheetEntries
    BY <1>3 DEF SheetEntries
  <2> QED
    BY <1>1, <2>1
<1>5. new.rels \in Seq(Relations) /\ DOMAIN new.rels = {1, 2, 3}
  <2>1. /\ [id |-> RelId(1), type |-> "other", target |-> StylesPart] \in Relations
        /\ [id |-> RelId(2), type |-> "other", target |-> SharedStrings] \in Relations
        /\ [id |-> RelId(3), type |-> "worksheet", target |-> Worksheet(1)] \in Relations
    BY <1>2, <1>3, PartNames DEF Relations, RelTypes
  <2> QED
    BY <1>1, <2>1
<1>6. new.overrides \in Seq(Parts) /\ DOMAIN new.overrides = {1}
  BY <1>1, <1>2
<1>7. /\ DOMAIN new.entries = {WorksheetsDir, Worksheet(1), StylesPart, SharedStrings}
      /\ new.entries[Worksheet(1)] = <<table>>
      /\ new.entries[StylesPart] = <<"styles_complete">>
      /\ new.entries[SharedStrings] = <<"no_strings">>
      /\ new.entries[WorksheetsDir] = <<"no_bytes">>
  BY <1>1, <1>2, PartNames
<1>8. \A b \in Bodies : /\ <<b>> \in Contents /\ Len(<<b>>) = 1 /\ <<b>>[1] = b
  BY DEF Contents
<1>9. /\ table \in Bodies /\ "styles_complete" \in Bodies
      /\ "no_strings" \in Bodies /\ "no_bytes" \in Bodies
  BY DEF Bodies
<1>10. \A part \in DOMAIN new.entries : new.entries[part] \in Contents /\ Len(new.entries[part]) = 1
  BY <1>7, <1>8, <1>9
<1>11. ReadEntry(new.entries, Worksheet(1)) = table
  BY <1>7, <1>8, <1>9 DEF ReadEntry
<1>12. IsPackage(new)
  BY <1>2, <1>4, <1>5, <1>6, <1>7, <1>10, PartNames DEF IsPackage
<1> QED
  BY <1>1, <1>4, <1>5, <1>6, <1>7, <1>10, <1>11, <1>12 DEF new

LEMMA FreshIsOK ==
    ASSUME NEW name \in Names, NEW table \in Tables
    PROVE  /\ PackageOK(FreshPackage(name, table))
           /\ PartOf(FreshPackage(name, table), 1) = Worksheet(1)
<1> DEFINE new == FreshPackage(name, table)
<1> HIDE DEF new
<1>0. /\ IsPackage(new)
      /\ DOMAIN new.sheets = {1}
      /\ new.sheets = <<[name |-> name, rid |-> RelId(3), id |-> 1]>>
      /\ DOMAIN new.rels = {1, 2, 3}
      /\ new.rels[1] = [id |-> RelId(1), type |-> "other", target |-> StylesPart]
      /\ new.rels[2] = [id |-> RelId(2), type |-> "other", target |-> SharedStrings]
      /\ new.rels[3] = [id |-> RelId(3), type |-> "worksheet", target |-> Worksheet(1)]
      /\ new.overrides = <<Worksheet(1)>> /\ DOMAIN new.overrides = {1}
      /\ DOMAIN new.entries = {WorksheetsDir, Worksheet(1), StylesPart, SharedStrings}
  BY FreshEffect DEF new
<1>1. /\ IsPackage(new)
      /\ DOMAIN new.sheets = {1}
      /\ new.sheets[1].rid = RelId(3)
      /\ DOMAIN new.rels = {1, 2, 3}
      /\ new.rels[1].id = RelId(1) /\ new.rels[1].target = StylesPart /\ new.rels[1].type = "other"
      /\ new.rels[2].id = RelId(2) /\ new.rels[2].target = SharedStrings /\ new.rels[2].type = "other"
      /\ new.rels[3].id = RelId(3) /\ new.rels[3].target = Worksheet(1) /\ new.rels[3].type = "worksheet"
      /\ DOMAIN new.overrides = {1} /\ new.overrides[1] = Worksheet(1)
      /\ DOMAIN new.entries = {WorksheetsDir, Worksheet(1), StylesPart, SharedStrings}
  BY <1>0
<1>2. RelId(1) # RelId(2) /\ RelId(1) # RelId(3) /\ RelId(2) # RelId(3)
  BY DEF RelId
<1>3. /\ Worksheet(1) \notin {StylesPart, SharedStrings, WorksheetsDir}
      /\ StylesPart # SharedStrings
      /\ Worksheet(1).leaf = "sheet" /\ StylesPart.leaf = "file" /\ SharedStrings.leaf = "file"
      /\ WorksheetsDir.leaf = ""
  BY PartNames
<1>4. RelIdsDiffer(new)
  BY <1>1, <1>2 DEF RelIdsDiffer
<1>5. TargetsDiffer(new)
  BY <1>1, <1>3 DEF TargetsDiffer
<1>6. WorksheetRels(new) = {3}
  BY <1>1 DEF WorksheetRels
<1>7. PartOf(new, 1) = Worksheet(1) /\ HasWorksheet(new, new.sheets[1].rid)
  BY <1>1, <1>4, <1>6, RelationFound DEF PartOf
<1>8. NamesDiffer(new) /\ SheetIdsDiffer(new) /\ SheetRidsDiffer(new) /\ WorksheetsTyped(new)
  BY <1>1, <1>7 DEF NamesDiffer, SheetIdsDiffer, SheetRidsDiffer, WorksheetsTyped
<1>9. SheetsResolve(new)
  <2>1. /\ new.rels[3].id = new.sheets[1].rid /\ new.rels[3].target = Worksheet(1)
        /\ Worksheet(1) \in DOMAIN new.entries
        /\ Worksheet(1) # StylesPart /\ ~IsDirectory(Worksheet(1))
    BY <1>1, <1>3 DEF IsDirectory
  <2> QED
    BY <1>1, <2>1 DEF SheetsResolve, EntryNames
<1>10. WorksheetsDeclared(new)
  BY <1>1, <1>6 DEF WorksheetsDeclared
<1>11. NoOrphans(new)
  <2>1. ASSUME NEW part \in EntryNames(new.entries) \cup Elements(new.overrides)
                                \cup {r.target : r \in Elements(new.rels)}
        PROVE  part \in {WorksheetsDir, Worksheet(1), StylesPart, SharedStrings}
    <3>1. Elements(new.overrides) = {Worksheet(1)}
      BY <1>1 DEF Elements
    <3>2. {r.target : r \in Elements(new.rels)} = {StylesPart, SharedStrings, Worksheet(1)}
      <4>1. Elements(new.rels) = {new.rels[1], new.rels[2], new.rels[3]}
        BY <1>1 DEF Elements
      <4> QED
        BY <1>1, <4>1
    <3> QED
      BY <1>1, <2>1, <3>1, <3>2 DEF EntryNames
  <2> QED
    BY <1>1, <1>3, <1>6, <2>1 DEF NoOrphans
<1> QED
  BY <1>4, <1>5, <1>7, <1>8, <1>9, <1>10, <1>11 DEF PackageOK, new

LEMMA AppendIsOK ==
    ASSUME NEW pkg, IsPackage(pkg), PackageOK(pkg), NEW name \in Names, NEW table \in Tables,
           CanAppend(pkg, name)
    PROVE  LET new == AppendTo(pkg, name, table)
           IN  /\ PackageOK(new)
               /\ \A i \in DOMAIN pkg.sheets : PartOf(new, i) = PartOf(pkg, i)
               /\ PartOf(new, Len(pkg.sheets) + 1) = Worksheet(NewIndex(pkg))
<1> DEFINE new  == AppendTo(pkg, name, table)
           part == Worksheet(NewIndex(pkg))
           rid  == RelId(NewRidNum(pkg))
<1>e. /\ DOMAIN new.sheets = 1 .. Len(pkg.sheets) + 1 /\ DOMAIN pkg.sheets = 1 .. Len(pkg.sheets)
      /\ \A i \in 1 .. Len(pkg.sheets) : new.sheets[i] = pkg.sheets[i]
      /\ new.sheets[Len(pkg.sheets) + 1] = [name |-> name, rid |-> rid, id |-> NewSheetId(pkg)]
      /\ DOMAIN new.rels = 1 .. Len(pkg.rels) + 1 /\ DOMAIN pkg.rels = 1 .. Len(pkg.rels)
      /\ \A k \in 1 .. Len(pkg.rels) : new.rels[k] = pkg.rels[k]
      /\ new.rels[Len(pkg.rels) + 1] = [id |-> rid, type |-> "worksheet", target |-> part]
      /\ DOMAIN new.overrides = 1 .. Len(pkg.overrides) + 1
      /\ DOMAIN pkg.overrides = 1 .. Len(pkg.overrides)
      /\ \A o \in 1 .. Len(pkg.overrides) : new.overrides[o] = pkg.overrides[o]
      /\ new.overrides[Len(pkg.overrides) + 1] = part
      /\ \A i \in 1 .. Len(pkg.sheets) : Fold[pkg.sheets[i].name] # Fold[name]
      /\ IsPackage(new) /\ Rewritten(pkg.entries, new.entries, part, table)
  BY SMTT(30), AppendEffect
<1>n. /\ \A i \in DOMAIN pkg.sheets : pkg.sheets[i].id # NewSheetId(pkg)
      /\ \A k \in DOMAIN pkg.rels : pkg.rels[k].id # rid
      /\ \A i \in DOMAIN pkg.sheets : pkg.sheets[i].rid # rid
      /\ part \notin DOMAIN pkg.entries
      /\ \A o \in DOMAIN pkg.overrides : pkg.overrides[o] # part
      /\ \A k \in DOMAIN pkg.rels : pkg.rels[k].target # part
      /\ NewIndex(pkg) \in Nat
  BY NumbersAreNew, Zenon
<1>p. part.dir = "worksheets" /\ part.leaf = "sheet" /\ part # StylesPart /\ ~IsDirectory(part)
  BY <1>n, PartNames DEF IsDirectory
<1> HIDE DEF new, part, rid
<1>1. PICK ns \in Nat : /\ ns = Len(pkg.sheets)
                        /\ DOMAIN pkg.sheets = 1 .. ns /\ DOMAIN new.sheets = 1 .. ns + 1
                        /\ \A i \in 1 .. ns : new.sheets[i] = pkg.sheets[i]
                        /\ new.sheets[ns + 1] = [name |-> name, rid |-> rid, id |-> NewSheetId(pkg)]
                        /\ \A i \in 1 .. ns : Fold[pkg.sheets[i].name] # Fold[name]
  BY <1>e, PackageTyped
<1>2. PICK nr \in Nat : /\ DOMAIN pkg.rels = 1 .. nr /\ DOMAIN new.rels = 1 .. nr + 1
                        /\ \A k \in 1 .. nr : new.rels[k] = pkg.rels[k]
                        /\ new.rels[nr + 1] = [id |-> rid, type |-> "worksheet", target |-> part]
  BY <1>e, PackageTyped
<1>3. PICK no \in Nat : /\ DOMAIN pkg.overrides = 1 .. no /\ DOMAIN new.overrides = 1 .. no + 1
                        /\ \A o \in 1 .. no : new.overrides[o] = pkg.overrides[o]
                        /\ new.overrides[no + 1] = part
  BY <1>e, PackageTyped
<1>4. /\ IsPackage(new)
      /\ DOMAIN new.entries = {p \in DOMAIN pkg.entries : ~IsDirectory(p)} \cup {part}
  BY <1>e DEF Rewritten
<1>5. /\ \A i \in 1 .. ns : pkg.sheets[i].id # NewSheetId(pkg)
      /\ \A k \in 1 .. nr : pkg.rels[k].id # rid
      /\ \A i \in 1 .. ns : pkg.sheets[i].rid # rid
      /\ \A o \in 1 .. no : pkg.overrides[o] # part
      /\ \A k \in 1 .. nr : pkg.rels[k].target # part
      /\ part \notin DOMAIN pkg.entries
      /\ part.dir = "worksheets" /\ part.leaf = "sheet" /\ part # StylesPart /\ ~IsDirectory(part)
  BY <1>n, <1>p, <1>1, <1>2, <1>3
<1>6. /\ \A i \in 1 .. ns + 1 : i \in 1 .. ns \/ i = ns + 1
      /\ \A k \in 1 .. nr + 1 : k \in 1 .. nr \/ k = nr + 1
      /\ \A o \in 1 .. no + 1 : o \in 1 .. no \/ o = no + 1
      /\ \A k \in 1 .. nr : k \in 1 .. nr + 1 /\ nr + 1 \in 1 .. nr + 1
      /\ ns + 1 \in 1 .. ns + 1 /\ nr + 1 \in 1 .. nr + 1 /\ no + 1 \in 1 .. no + 1
      /\ \A o \in 1 .. no : o \in 1 .. no + 1
      /\ \A i \in 1 .. ns : i \in 1 .. ns + 1
  OBVIOUS
<1>7. NamesDiffer(new)
  <2>1. \A i, j \in 1 .. ns : Fold[pkg.sheets[i].name] = Fold[pkg.sheets[j].name] => i = j
    BY <1>1 DEF PackageOK, NamesDiffer
  <2>2. new.sheets[ns + 1].name = name
    BY <1>1
  <2> QED
    BY <1>1, <1>6, <2>1, <2>2 DEF NamesDiffer
<1>8. SheetIdsDiffer(new)
  BY <1>1, <1>5, <1>6 DEF SheetIdsDiffer, PackageOK
<1>9. SheetRidsDiffer(new)
  BY <1>1, <1>5, <1>6 DEF SheetRidsDiffer, PackageOK
<1>10. RelIdsDiffer(new)
  BY <1>2, <1>5, <1>6 DEF RelIdsDiffer, PackageOK
<1>11. TargetsDiffer(new)
  BY <1>2, <1>5, <1>6 DEF TargetsDiffer, PackageOK
<1>12. WorksheetRels(new) = WorksheetRels(pkg) \cup {nr + 1}
  BY <1>2, <1>6 DEF WorksheetRels
<1>13. \A i \in DOMAIN pkg.sheets : PartOf(new, i) = PartOf(pkg, i)
  <2> SUFFICES ASSUME NEW i \in DOMAIN pkg.sheets PROVE PartOf(new, i) = PartOf(pkg, i)
    OBVIOUS
  <2>1. PICK k \in DOMAIN pkg.rels : pkg.rels[k].id = pkg.sheets[i].rid /\ pkg.rels[k].target = PartOf(pkg, i)
    BY SheetPart
  <2>2. k \in DOMAIN new.rels /\ new.rels[k].id = new.sheets[i].rid /\ new.rels[k].target = PartOf(pkg, i)
    BY <1>1, <1>2, <1>6, <2>1
  <2> QED
    BY <1>4, <1>10, <2>2, RelationFound DEF PartOf
<1>14. PartOf(new, ns + 1) = part /\ HasWorksheet(new, new.sheets[ns + 1].rid)
  <2>1. nr + 1 \in DOMAIN new.rels /\ new.rels[nr + 1].id = new.sheets[ns + 1].rid /\ new.rels[nr + 1].target = part
    BY <1>1, <1>2, <1>6
  <2> QED
    BY <1>4, <1>10, <1>12, <2>1, RelationFound DEF PartOf
<1>15. SheetsResolve(new)
  <2> SUFFICES ASSUME NEW i \in DOMAIN new.sheets
               PROVE  \E k \in DOMAIN new.rels :
                          /\ new.rels[k].id = new.sheets[i].rid
                          /\ new.rels[k].target \in EntryNames(new.entries)
                          /\ new.rels[k].target # StylesPart
                          /\ ~IsDirectory(new.rels[k].target)
    BY DEF SheetsResolve
  <2>1. CASE i \in 1 .. ns
    <3>1. PICK k \in DOMAIN pkg.rels :
                  /\ pkg.rels[k].id = pkg.sheets[i].rid
                  /\ pkg.rels[k].target \in EntryNames(pkg.entries)
                  /\ pkg.rels[k].target # StylesPart
                  /\ ~IsDirectory(pkg.rels[k].target)
      BY <1>1, <2>1 DEF PackageOK, SheetsResolve
    <3>2. k \in DOMAIN new.rels /\ new.rels[k] = pkg.rels[k] /\ new.sheets[i] = pkg.sheets[i]
      BY <1>1, <1>2, <1>6, <2>1
    <3> QED
      BY <1>4, <3>1, <3>2 DEF EntryNames
  <2>2. CASE i = ns + 1
    <3>1. nr + 1 \in DOMAIN new.rels /\ new.rels[nr + 1].id = new.sheets[i].rid /\ new.rels[nr + 1].target = part
      BY <1>1, <1>2, <1>6, <2>2
    <3> QED
      BY <1>4, <1>5, <3>1 DEF EntryNames
  <2> QED
    BY <1>1, <1>6, <2>1, <2>2
<1>16. WorksheetsDeclared(new)
  <2>1. ASSUME NEW k \in WorksheetRels(new)
        PROVE  \E o \in DOMAIN new.overrides : new.overrides[o] = new.rels[k].target
    <3>1. CASE k \in WorksheetRels(pkg)
      <4>1. PICK o \in DOMAIN pkg.overrides : pkg.overrides[o] = pkg.rels[k].target
        BY <3>1 DEF PackageOK, WorksheetsDeclared
      <4>2. k \in 1 .. nr
        BY <1>2, <3>1 DEF WorksheetRels
      <4> QED
        BY <1>2, <1>3, <1>6, <4>1, <4>2
    <3>2. CASE k = nr + 1
      <4>1. new.rels[k].target = part
        BY <1>2, <3>2
      <4> QED
        BY <1>3, <1>6, <4>1
    <3> QED
      BY <1>12, <3>1, <3>2
  <2>2. ASSUME NEW o \in DOMAIN new.overrides, NEW p \in DOMAIN new.overrides,
               new.overrides[o] = new.overrides[p]
        PROVE  o = p
    <3>1. \A q, r \in 1 .. no : pkg.overrides[q] = pkg.overrides[r] => q = r
      BY <1>3 DEF PackageOK, WorksheetsDeclared
    <3>2. /\ o \in 1 .. no \/ o = no + 1
          /\ p \in 1 .. no \/ p = no + 1
      BY <1>3, <1>6
    <3>3. CASE o \in 1 .. no /\ p \in 1 .. no
      BY <1>3, <2>2, <3>1, <3>3
    <3>4. CASE o = no + 1 /\ p \in 1 .. no
      BY <1>3, <1>5, <2>2, <3>4
    <3>5. CASE o \in 1 .. no /\ p = no + 1
      BY <1>3, <1>5, <2>2, <3>5
    <3> QED
      BY <3>2, <3>3, <3>4, <3>5
  <2> QED
    BY <2>1, <2>2 DEF WorksheetsDeclared
<1>17. WorksheetsTyped(new)
  <2> SUFFICES ASSUME NEW i \in DOMAIN new.sheets, PartOf(new, i).dir = "worksheets"
               PROVE  HasWorksheet(new, new.sheets[i].rid)
    BY DEF WorksheetsTyped
  <2>1. CASE i \in 1 .. ns
    <3>1. HasWorksheet(pkg, pkg.sheets[i].rid)
      BY <1>1, <1>13, <2>1 DEF PackageOK, WorksheetsTyped
    <3>2. \A k \in WorksheetRels(pkg) : new.rels[k] = pkg.rels[k]
      BY <1>2 DEF WorksheetRels
    <3> QED
      BY <1>1, <1>12, <2>1, <3>1, <3>2 DEF HasWorksheet
  <2>2. CASE i = ns + 1
    BY <1>14, <2>2
  <2> QED
    BY <1>1, <1>6, <2>1, <2>2
<1>18. NoOrphans(new)
  <2> SUFFICES ASSUME NEW p \in EntryNames(new.entries) \cup Elements(new.overrides)
                                    \cup {r.target : r \in Elements(new.rels)},
                      p.dir = "worksheets", p.leaf = "sheet"
               PROVE  \E k \in WorksheetRels(new) : new.rels[k].target = p
    BY DEF NoOrphans
  <2>1. \/ p = part
        \/ p \in EntryNames(pkg.entries) \cup Elements(pkg.overrides)
                     \cup {r.target : r \in Elements(pkg.rels)}
    <3>1. ASSUME p \in EntryNames(new.entries) PROVE p = part \/ p \in EntryNames(pkg.entries)
      BY <1>4, <3>1 DEF EntryNames
    <3>2. ASSUME p \in Elements(new.overrides) PROVE p = part \/ p \in Elements(pkg.overrides)
      BY <1>3, <1>6, <3>2 DEF Elements
    <3>3. ASSUME p \in {r.target : r \in Elements(new.rels)}
          PROVE  p = part \/ p \in {r.target : r \in Elements(pkg.rels)}
      <4>1. PICK k \in DOMAIN new.rels : p = new.rels[k].target
        BY <3>3 DEF Elements
      <4> QED
        <5>1. new.rels[nr + 1].target = part
          BY <1>2
        <5>2. ASSUME k \in 1 .. nr PROVE p \in {r.target : r \in Elements(pkg.rels)}
          <6>1. p = pkg.rels[k].target /\ pkg.rels[k] \in Elements(pkg.rels)
            BY <1>2, <4>1, <5>2 DEF Elements
          <6> QED
            BY <6>1
        <5> QED
          BY <1>2, <1>6, <4>1, <5>1, <5>2
    <3> QED
      BY <3>1, <3>2, <3>3
  <2>2. CASE p = part
    BY <1>2, <1>12, <2>2
  <2>3. CASE p \in EntryNames(pkg.entries) \cup Elements(pkg.overrides)
                     \cup {r.target : r \in Elements(pkg.rels)}
    <3>1. PICK k \in WorksheetRels(pkg) : pkg.rels[k].target = p
      BY <2>3 DEF PackageOK, NoOrphans
    <3> QED
      BY <1>2, <1>12, <3>1 DEF WorksheetRels
  <2> QED
    BY <2>1, <2>2, <2>3
<1>19. PackageOK(new)
  BY <1>7, <1>8, <1>9, <1>10, <1>11, <1>15, <1>16, <1>17, <1>18 DEF PackageOK
<1> QED
  BY <1>1, <1>13, <1>14, <1>19 DEF new, part

LEMMA ReplaceIsOK ==
    ASSUME NEW pkg, IsPackage(pkg), PackageOK(pkg), NEW name \in Names, NEW table \in Tables,
           CanReplace(pkg, name)
    PROVE  LET new == ReplaceIn(pkg, name, table)
           IN  /\ PackageOK(new)
               /\ \A i \in DOMAIN pkg.sheets : PartOf(new, i) = PartOf(pkg, i)
<1> DEFINE new  == ReplaceIn(pkg, name, table)
           i    == CollisionIndex(pkg, name)
<1> HIDE DEF new, i
<1>1. /\ new.sheets = pkg.sheets /\ new.rels = pkg.rels /\ new.overrides = pkg.overrides
      /\ i \in DOMAIN pkg.sheets
      /\ DOMAIN new.entries = {p \in DOMAIN pkg.entries : ~IsDirectory(p)} \cup {PartOf(pkg, i)}
  BY ReplaceEffect DEF new, i, Rewritten
<1>2. PartOf(pkg, i) \in DOMAIN pkg.entries /\ ~IsDirectory(PartOf(pkg, i))
  BY <1>1, SheetPart
<1>3. DOMAIN new.entries = {p \in DOMAIN pkg.entries : ~IsDirectory(p)}
  BY <1>1, <1>2
<1>4. \A j : PartOf(new, j) = PartOf(pkg, j)
  BY <1>1 DEF PartOf, TargetOf, RelsOf
<1>5. WorksheetRels(new) = WorksheetRels(pkg)
  BY <1>1 DEF WorksheetRels
<1>6. NamesDiffer(new) /\ SheetIdsDiffer(new) /\ RelIdsDiffer(new) /\ SheetRidsDiffer(new) /\ TargetsDiffer(new)
  BY <1>1 DEF PackageOK, NamesDiffer, SheetIdsDiffer, RelIdsDiffer, SheetRidsDiffer, TargetsDiffer
<1>7. SheetsResolve(new)
  BY <1>1, <1>3 DEF PackageOK, SheetsResolve, EntryNames
<1>8. WorksheetsDeclared(new)
  BY <1>1, <1>5 DEF PackageOK, WorksheetsDeclared
<1>9. WorksheetsTyped(new)
  BY <1>1, <1>4, <1>5 DEF PackageOK, WorksheetsTyped, HasWorksheet
<1>10. NoOrphans(new)
  BY <1>1, <1>3, <1>5 DEF PackageOK, NoOrphans, EntryNames
<1> QED
  BY <1>4, <1>6, <1>7, <1>8, <1>9, <1>10 DEF PackageOK, new

-----------------------------------------------------------------------------
(* The workbook stays in order.                                              *)

LEMMA NoFileIsOK == IsPackage(NoFile) /\ PackageOK(NoFile)
<1>1. /\ NoFile.sheets = << >> /\ NoFile.rels = << >> /\ NoFile.overrides = << >>
      /\ NoFile.entries = << >>
      /\ DOMAIN NoFile.sheets = {} /\ DOMAIN NoFile.rels = {} /\ DOMAIN NoFile.overrides = {}
      /\ DOMAIN NoFile.entries = {}
  BY DEF NoFile
<1>2. IsPackage(NoFile)
  BY <1>1, EmptySeq DEF IsPackage
<1>3. WorksheetRels(NoFile) = {}
  BY <1>1 DEF WorksheetRels
<1>4. Elements(NoFile.overrides) = {} /\ Elements(NoFile.rels) = {}
  BY <1>1 DEF Elements
<1>5. NoOrphans(NoFile)
  BY <1>1, <1>4 DEF NoOrphans, EntryNames
<1> QED
  BY <1>1, <1>2, <1>3, <1>5
     DEF PackageOK, NamesDiffer, SheetIdsDiffer, RelIdsDiffer, SheetRidsDiffer, TargetsDiffer,
         SheetsResolve, WorksheetsDeclared, WorksheetsTyped

(* The statements by what they do to the file.                               *)
LEMMA StatementKinds ==
    ASSUME Next
    PROVE  \E name \in Names, table \in Tables :
               \/ /\ file' = FreshPackage(name, table)
                  /\ last'.name = name /\ last'.table = table /\ last'.refused = FALSE
                  /\ file = NoFile \/ last'.mode = "create"
               \/ /\ CanAppend(file, name) /\ file' = AppendTo(file, name, table)
                  /\ last'.name = name /\ last'.table = table /\ last'.refused = FALSE
                  /\ last'.mode = "append"
               \/ /\ CanReplace(file, name) /\ file' = ReplaceIn(file, name, table)
                  /\ last'.name = name /\ last'.table = table /\ last'.refused = FALSE
                  /\ last'.mode = "replace"
               \/ file' = file /\ last'.refused = TRUE
<1>1. PICK name \in Names, table \in Tables :
          \/ \E mode \in Modes : CopyFresh(mode, name, table) \/ Refuse(mode, name, table)
          \/ CopyAppend(name, table)
          \/ CopyReplace(name, table)
  BY DEF Next
<1>2. ASSUME NEW mode \in Modes, CopyFresh(mode, name, table)
      PROVE  /\ file' = FreshPackage(name, table)
             /\ last'.name = name /\ last'.table = table /\ last'.refused = FALSE
             /\ file = NoFile \/ last'.mode = "create"
  BY <1>2 DEF CopyFresh, Execute, UsesAppender, Modes
<1>3. ASSUME NEW mode \in Modes, Refuse(mode, name, table)
      PROVE  file' = file /\ last'.refused = TRUE
  BY <1>3 DEF Refuse, Execute
<1>4. ASSUME CopyAppend(name, table)
      PROVE  /\ CanAppend(file, name) /\ file' = AppendTo(file, name, table)
             /\ last'.name = name /\ last'.table = table /\ last'.refused = FALSE
             /\ last'.mode = "append"
  BY <1>4 DEF CopyAppend, Execute
<1>5. ASSUME CopyReplace(name, table)
      PROVE  /\ CanReplace(file, name) /\ file' = ReplaceIn(file, name, table)
             /\ last'.name = name /\ last'.table = table /\ last'.refused = FALSE
             /\ last'.mode = "replace"
  BY <1>5 DEF CopyReplace, Execute
<1> QED
  BY <1>1, <1>2, <1>3, <1>4, <1>5, Zenon

(* WorkbookOK, together with what the latest statement left: names, sheetIds,*)
(* r:ids and parts of the sheets all differ and all resolve, and the sheet   *)
(* of the latest statement has its table.                                    *)
LEMMA CopyInvStep ==
    ASSUME CopyInv, [Next]_vars
    PROVE  CopyInv'
<1>0. IsPackage(file) /\ PackageOK(file) /\ LastWritten
  BY DEF CopyInv, WorkbookOK
<1> SUFFICES ASSUME Next PROVE IsPackage(file') /\ PackageOK(file') /\ LastWritten'
  <2>1. CASE UNCHANGED vars
    BY <1>0, <2>1 DEF vars, CopyInv, WorkbookOK, LastWritten, PartOf, IsPackage, PackageOK
  <2>2. CASE Next
    BY <2>2 DEF CopyInv, WorkbookOK
  <2> QED
    BY <2>1, <2>2
<1>1. PICK name \in Names, table \in Tables :
               \/ /\ file' = FreshPackage(name, table)
                  /\ last'.name = name /\ last'.table = table /\ last'.refused = FALSE
               \/ /\ CanAppend(file, name) /\ file' = AppendTo(file, name, table)
                  /\ last'.name = name /\ last'.table = table /\ last'.refused = FALSE
               \/ /\ CanReplace(file, name) /\ file' = ReplaceIn(file, name, table)
                  /\ last'.name = name /\ last'.table = table /\ last'.refused = FALSE
               \/ file' = file /\ last'.refused = TRUE
  BY StatementKinds, Zenon
<1>2. ASSUME file' = FreshPackage(name, table), last'.name = name, last'.table = table
      PROVE  IsPackage(file') /\ PackageOK(file') /\ LastWritten'
  <2>1. DOMAIN file'.sheets = {1} /\ ReadEntry(file'.entries, Worksheet(1)) = table /\ IsPackage(file')
    BY <1>2, FreshEffect
  <2>2. PartOf(file', 1) = Worksheet(1) /\ PackageOK(file')
    BY <1>2, FreshIsOK
  <2>3. Worksheet(1).dir = "worksheets"
    BY PartNames
  <2> QED
    BY <1>2, <2>1, <2>2, <2>3 DEF LastWritten
<1>3. ASSUME CanAppend(file, name), file' = AppendTo(file, name, table), last'.name = name, last'.table = table
      PROVE  IsPackage(file') /\ PackageOK(file') /\ LastWritten'
  <2> DEFINE part == Worksheet(NewIndex(file))
  <2>1. /\ IsPackage(file') /\ Rewritten(file.entries, file'.entries, part, table)
        /\ DOMAIN file'.sheets = 1 .. Len(file.sheets) + 1
        /\ \A i \in 1 .. Len(file.sheets) : file'.sheets[i] = file.sheets[i]
        /\ \A i \in 1 .. Len(file.sheets) : Fold[file.sheets[i].name] # Fold[name]
    BY <1>0, <1>3, AppendShape
  <2>2. PackageOK(file') /\ PartOf(file', Len(file.sheets) + 1) = part
    BY <1>0, <1>3, AppendIsOK
  <2>3. PICK n \in Nat : n = Len(file.sheets)
    BY <1>0, PackageTyped
  <2>4. ASSUME NEW i \in DOMAIN file'.sheets, file'.sheets[i].name = name PROVE i = n + 1
    <3>1. i \in 1 .. n \/ i = n + 1
      BY <2>1, <2>3
    <3> QED
      BY <2>1, <2>3, <2>4, <3>1
  <2>5. part.dir = "worksheets"
    BY <1>0, NumbersAreNew, PartNames
  <2>6. ReadEntry(file'.entries, part) = table
    BY <2>1 DEF Rewritten
  <2> HIDE DEF part
  <2> QED
    BY <1>3, <2>1, <2>2, <2>3, <2>4, <2>5, <2>6 DEF LastWritten
<1>4. ASSUME CanReplace(file, name), file' = ReplaceIn(file, name, table), last'.name = name, last'.table = table
      PROVE  IsPackage(file') /\ PackageOK(file') /\ LastWritten'
  <2> DEFINE c == CollisionIndex(file, name)
  <2>1. /\ IsPackage(file') /\ file'.sheets = file.sheets
        /\ c \in DOMAIN file.sheets /\ Fold[file.sheets[c].name] = Fold[name]
        /\ PartOf(file, c).dir = "worksheets"
        /\ Rewritten(file.entries, file'.entries, PartOf(file, c), table)
    BY <1>0, <1>4, ReplaceEffect
  <2>2. PackageOK(file') /\ PartOf(file', c) = PartOf(file, c)
    BY <1>0, <1>4, <2>1, ReplaceIsOK
  <2> HIDE DEF c
  <2>3. ASSUME NEW i \in DOMAIN file'.sheets, file'.sheets[i].name = name PROVE i = c
    BY <1>0, <2>1, <2>3 DEF PackageOK, NamesDiffer
  <2>4. ReadEntry(file'.entries, PartOf(file', c)) = table
    BY <2>1, <2>2 DEF Rewritten
  <2> QED
    BY <1>4, <2>1, <2>2, <2>3, <2>4 DEF LastWritten
<1>5. ASSUME file' = file, last'.refused = TRUE
      PROVE  IsPackage(file') /\ PackageOK(file') /\ LastWritten'
  BY <1>0, <1>5 DEF LastWritten
<1> QED
  BY <1>1, <1>2, <1>3, <1>4, <1>5

(* For every sequence of statements: allocation of ids and part names never  *)
(* makes two sheets collide or leaves one that does not resolve, and the     *)
(* sheet the latest statement named has the table it wrote.                  *)
THEOREM CopyCorrect == Spec => []CopyInv
<1>1. Init => CopyInv
  <2> SUFFICES ASSUME Init PROVE CopyInv
    OBVIOUS
  <2>1. IsPackage(file) /\ PackageOK(file)
    BY NoFileIsOK, CopyAssumption, WorkbooksAssumption DEF Init
  <2> QED
    BY <2>1 DEF Init, CopyInv, WorkbookOK, LastWritten
<1>2. CopyInv /\ [Next]_vars => CopyInv'
  BY CopyInvStep
<1> QED
  BY <1>1, <1>2, PTL DEF Spec

THEOREM WorkbookStaysOK == Spec => []WorkbookOK
<1>1. CopyInv => WorkbookOK
  BY DEF CopyInv
<1> QED
  BY <1>1, CopyCorrect, PTL

-----------------------------------------------------------------------------
(* The reader finds what was written.                                        *)

(* With legible names a worksheet is the only candidate for its name.        *)
LEMMA SheetFound ==
    ASSUME NamesLegible, NEW pkg, IsPackage(pkg), PackageOK(pkg), NEW i \in Candidates(pkg)
    PROVE  LET name == pkg.sheets[i].name
           IN  /\ CanRead(pkg, name)
               /\ ReadSheet(pkg, name) = ReadEntry(pkg.entries, PartOf(pkg, i))
<1> DEFINE name == pkg.sheets[i].name
<1>1. i \in DOMAIN pkg.sheets /\ HasWorksheet(pkg, pkg.sheets[i].rid)
  BY DEF Candidates
<1>2. name \in Names /\ name # NoName /\ i \in Int
  BY <1>1, PackageTyped DEF NamesLegible
<1>3. Requested(pkg, name) = name
  BY <1>2 DEF Requested
<1>4. CandidatesFor(pkg, name) = {i}
  <2>1. i \in CandidatesFor(pkg, name)
    BY DEF CandidatesFor
  <2>2. ASSUME NEW j \in CandidatesFor(pkg, name) PROVE j = i
    <3>1. j \in DOMAIN pkg.sheets /\ Unescape[pkg.sheets[j].name] = Unescape[name]
      BY DEF CandidatesFor, Candidates
    <3>2. pkg.sheets[j].name \in Names
      BY <3>1, PackageTyped
    <3>3. Fold[pkg.sheets[j].name] = Fold[name]
      BY <1>2, <3>1, <3>2 DEF NamesLegible
    <3> QED
      BY <1>1, <3>1, <3>3 DEF PackageOK, NamesDiffer
  <2> QED
    BY <2>1, <2>2
<1>5. FoundSheet(pkg, name) = pkg.sheets[i]
  BY <1>2, <1>4, MaximumOfOne DEF FoundSheet
<1>6. PICK k \in WorksheetRels(pkg) : pkg.rels[k].id = pkg.sheets[i].rid
  BY <1>1 DEF HasWorksheet
<1>7. SheetPath(pkg, pkg.sheets[i].rid) = PartOf(pkg, i)
  <2>1. k \in DOMAIN pkg.rels
    BY DEF WorksheetRels
  <2> QED
    BY <1>6, <2>1, RelationFound DEF PackageOK, PartOf
<1>8. PartOf(pkg, i) \in DOMAIN pkg.entries
  BY <1>1, SheetPart
<1> QED
  BY <1>3, <1>4, <1>5, <1>7, <1>8 DEF CanRead, ReadSheet, EntryNames

(* Every worksheet, of whichever producer, reads back under its name as long *)
(* as no two names are one to the reader and two to the writer.              *)
THEOREM EverySheetReadsBack ==
    ASSUME NamesLegible
    PROVE  Spec => []ReadsBack
<1>1. CopyInv => ReadsBack
  <2> SUFFICES ASSUME CopyInv PROVE ReadsBack
    OBVIOUS
  <2>1. IsPackage(file) /\ PackageOK(file)
    BY DEF CopyInv, WorkbookOK
  <2> QED
    BY <2>1, SheetFound DEF ReadsBack
<1> QED
  BY <1>1, CopyCorrect, PTL

(* What the latest statement wrote is what a scan of its sheet returns.      *)
THEOREM LatestStatementReads ==
    ASSUME NamesLegible
    PROVE  Spec => []LastWriteReads
<1>1. CopyInv => LastWriteReads
  <2> SUFFICES ASSUME CopyInv, last # NoStatement, ~last.refused,
                      NEW s \in Elements(file.sheets), s.name = last.name
               PROVE  CanRead(file, last.name) /\ ReadSheet(file, last.name) = last.table
    BY DEF LastWriteReads
  <2>1. IsPackage(file) /\ PackageOK(file) /\ LastWritten
    BY DEF CopyInv, WorkbookOK
  <2>2. PICK i \in DOMAIN file.sheets : file.sheets[i].name = last.name
    BY DEF Elements
  <2>3. PartOf(file, i).dir = "worksheets" /\ ReadEntry(file.entries, PartOf(file, i)) = last.table
    BY <2>1, <2>2 DEF LastWritten
  <2>4. i \in Candidates(file)
    BY <2>1, <2>3 DEF PackageOK, WorksheetsTyped, Candidates
  <2> QED
    BY <2>1, <2>2, <2>3, <2>4, SheetFound
<1> QED
  BY <1>1, CopyCorrect, PTL

-----------------------------------------------------------------------------
(* What a statement never does to the rest of the workbook.                  *)

(* The rest of the package under append: what sheets there are, with which   *)
(* part, and what those parts hold.                                          *)
LEMMA AppendKeeps ==
    ASSUME NEW pkg, IsPackage(pkg), PackageOK(pkg), NEW name \in Names, NEW table \in Tables,
           CanAppend(pkg, name)
    PROVE  LET new == AppendTo(pkg, name, table)
           IN  /\ \A i \in DOMAIN pkg.sheets :
                     /\ i \in DOMAIN new.sheets /\ new.sheets[i] = pkg.sheets[i]
                     /\ PartOf(new, i) = PartOf(pkg, i)
                     /\ ReadEntry(new.entries, PartOf(new, i)) = ReadEntry(pkg.entries, PartOf(pkg, i))
               /\ \A p \in DOMAIN pkg.entries \ {StylesPart} : ~IsDirectory(p) =>
                     p \in DOMAIN new.entries /\ ReadEntry(new.entries, p) = ReadEntry(pkg.entries, p)
               /\ \A p \in DOMAIN new.entries : Len(new.entries[p]) = 1
<1> DEFINE new  == AppendTo(pkg, name, table)
           part == Worksheet(NewIndex(pkg))
<1>1. /\ DOMAIN new.sheets = 1 .. Len(pkg.sheets) + 1 /\ DOMAIN pkg.sheets = 1 .. Len(pkg.sheets)
      /\ \A i \in 1 .. Len(pkg.sheets) : new.sheets[i] = pkg.sheets[i]
      /\ Rewritten(pkg.entries, new.entries, part, table)
  BY AppendShape
<1>2. \A i \in DOMAIN pkg.sheets : PartOf(new, i) = PartOf(pkg, i)
  BY AppendIsOK
<1>3. part \notin DOMAIN pkg.entries
  BY NumbersAreNew
<1> HIDE DEF new, part
<1>4. PICK n \in Nat : n = Len(pkg.sheets)
  BY PackageTyped
<1>5. \A i \in DOMAIN pkg.sheets : i \in DOMAIN new.sheets /\ new.sheets[i] = pkg.sheets[i]
  BY <1>1, <1>4
<1>6. ASSUME NEW p \in DOMAIN pkg.entries \ {StylesPart}, ~IsDirectory(p)
      PROVE  p \in DOMAIN new.entries /\ ReadEntry(new.entries, p) = ReadEntry(pkg.entries, p)
  BY <1>1, <1>3, <1>6 DEF Rewritten
<1>7. \A i \in DOMAIN pkg.sheets :
          ReadEntry(new.entries, PartOf(new, i)) = ReadEntry(pkg.entries, PartOf(pkg, i))
  BY <1>2, <1>6, SheetPart
<1>8. \A p \in DOMAIN new.entries : Len(new.entries[p]) = 1
  BY <1>1 DEF Rewritten
<1> QED
  BY <1>2, <1>5, <1>6, <1>7, <1>8 DEF new

(* The same under replace, for all sheets but the one that is meant.         *)
LEMMA ReplaceKeeps ==
    ASSUME NEW pkg, IsPackage(pkg), PackageOK(pkg), NEW name \in Names, NEW table \in Tables,
           CanReplace(pkg, name)
    PROVE  LET new == ReplaceIn(pkg, name, table)
               c   == CollisionIndex(pkg, name)
           IN  /\ c \in DOMAIN pkg.sheets /\ Fold[pkg.sheets[c].name] = Fold[name]
               /\ new.sheets = pkg.sheets
               /\ \A i \in DOMAIN pkg.sheets :
                     /\ PartOf(new, i) = PartOf(pkg, i)
                     /\ i # c => ReadEntry(new.entries, PartOf(new, i)) = ReadEntry(pkg.entries, PartOf(pkg, i))
                     /\ i = c => ReadEntry(new.entries, PartOf(new, i)) = table
               /\ \A p \in DOMAIN pkg.entries \ {StylesPart, PartOf(pkg, c)} : ~IsDirectory(p) =>
                     p \in DOMAIN new.entries /\ ReadEntry(new.entries, p) = ReadEntry(pkg.entries, p)
               /\ \A p \in DOMAIN new.entries : Len(new.entries[p]) = 1
<1> DEFINE new == ReplaceIn(pkg, name, table)
           c   == CollisionIndex(pkg, name)
<1>1. /\ new.sheets = pkg.sheets
      /\ c \in DOMAIN pkg.sheets /\ Fold[pkg.sheets[c].name] = Fold[name]
      /\ Rewritten(pkg.entries, new.entries, PartOf(pkg, c), table)
  BY ReplaceEffect
<1>2. \A i \in DOMAIN pkg.sheets : PartOf(new, i) = PartOf(pkg, i)
  BY ReplaceIsOK
<1> HIDE DEF new, c
<1>3. ASSUME NEW p \in DOMAIN pkg.entries \ {StylesPart, PartOf(pkg, c)}, ~IsDirectory(p)
      PROVE  p \in DOMAIN new.entries /\ ReadEntry(new.entries, p) = ReadEntry(pkg.entries, p)
  BY <1>1, <1>3 DEF Rewritten
<1>4. ASSUME NEW i \in DOMAIN pkg.sheets, i # c
      PROVE  ReadEntry(new.entries, PartOf(new, i)) = ReadEntry(pkg.entries, PartOf(pkg, i))
  <2>1. PartOf(pkg, i) # PartOf(pkg, c)
    BY <1>1, <1>4, SheetPartsDiffer
  <2> QED
    BY <1>2, <1>3, <2>1, SheetPart
<1>5. ReadEntry(new.entries, PartOf(new, c)) = table
  BY <1>1, <1>2 DEF Rewritten
<1>6. \A p \in DOMAIN new.entries : Len(new.entries[p]) = 1
  BY <1>1 DEF Rewritten
<1> QED
  BY <1>1, <1>2, <1>3, <1>4, <1>5, <1>6 DEF new, c

(* A statement that appends or replaces leaves every sheet its position,     *)
(* name, sheetId, r:id and part.                                             *)
THEOREM SheetsKeepIdentity == Spec => StableIdentity
<1> DEFINE A == Rewrites =>
                  \A i \in DOMAIN file.sheets :
                      i \in DOMAIN file'.sheets /\ file'.sheets[i] = file.sheets[i]
                          /\ PartOf(file', i) = PartOf(file, i)
<1>1. ASSUME WorkbookOK, [Next]_vars PROVE [A]_vars
  <2> SUFFICES ASSUME Next, Rewrites PROVE A
    BY <1>1
  <2>1. IsPackage(file) /\ PackageOK(file)
    BY <1>1 DEF WorkbookOK
  <2>2. file # NoFile /\ last'.mode # "create"
    BY DEF Rewrites
  <2>3. PICK name \in Names, table \in Tables :
            \/ CanAppend(file, name) /\ file' = AppendTo(file, name, table)
            \/ CanReplace(file, name) /\ file' = ReplaceIn(file, name, table)
            \/ file' = file
    BY <2>2, StatementKinds, Zenon
  <2>4. CASE CanAppend(file, name) /\ file' = AppendTo(file, name, table)
    BY <2>1, <2>4, AppendKeeps
  <2>5. CASE CanReplace(file, name) /\ file' = ReplaceIn(file, name, table)
    BY <2>1, <2>5, ReplaceKeeps
  <2>6. CASE file' = file
    BY <2>6
  <2> QED
    BY <2>3, <2>4, <2>5, <2>6
<1> QED
  BY <1>1, WorkbookStaysOK, PTL DEF Spec, StableIdentity

(* All other parts keep the contents that count.                             *)
THEOREM OtherPartsAreKept == Spec => OthersPreserved
<1> DEFINE Kept2(touched) ==
               /\ touched # {} => last'.mode = "replace"
               /\ \A part \in EntryNames(file.entries) \ (touched \cup {StylesPart}) :
                      ~IsDirectory(part) =>
                          /\ part \in EntryNames(file'.entries)
                          /\ ReadEntry(file'.entries, part) = ReadEntry(file.entries, part)
           A == Rewrites =>
                  \E touched \in {{}} \cup {{PartOf(file, i)} : i \in DOMAIN file.sheets} : Kept2(touched)
<1>1. ASSUME WorkbookOK, [Next]_vars PROVE [A]_vars
  <2> SUFFICES ASSUME Next, Rewrites
               PROVE  \E touched \in {{}} \cup {{PartOf(file, i)} : i \in DOMAIN file.sheets} : Kept2(touched)
    BY <1>1
  <2>1. IsPackage(file) /\ PackageOK(file)
    BY <1>1 DEF WorkbookOK
  <2>2. file # NoFile /\ last'.mode # "create"
    BY DEF Rewrites
  <2>3. PICK name \in Names, table \in Tables :
            \/ CanAppend(file, name) /\ file' = AppendTo(file, name, table)
            \/ CanReplace(file, name) /\ file' = ReplaceIn(file, name, table) /\ last'.mode = "replace"
            \/ file' = file
    BY <2>2, StatementKinds, Zenon
  <2>4. CASE CanAppend(file, name) /\ file' = AppendTo(file, name, table)
    <3>1. Kept2({})
      BY <2>1, <2>4, AppendKeeps DEF EntryNames
    <3> QED
      BY <3>1
  <2>5. CASE CanReplace(file, name) /\ file' = ReplaceIn(file, name, table) /\ last'.mode = "replace"
    <3>1. Kept2({PartOf(file, CollisionIndex(file, name))}) /\ CollisionIndex(file, name) \in DOMAIN file.sheets
      BY <2>1, <2>5, ReplaceKeeps DEF EntryNames
    <3>2. {PartOf(file, CollisionIndex(file, name))} \in {{}} \cup {{PartOf(file, i)} : i \in DOMAIN file.sheets}
      BY <3>1
    <3> HIDE DEF Kept2
    <3> QED
      BY <3>1, <3>2
  <2>6. CASE file' = file
    <3>1. Kept2({})
      BY <2>6 DEF EntryNames
    <3> QED
      BY <3>1
  <2> QED
    BY <2>3, <2>4, <2>5, <2>6
<1> QED
  BY <1>1, WorkbookStaysOK, PTL DEF Spec, OthersPreserved

(* A zip the extension writes has no name twice.                             *)
THEOREM NoNameTwice == Spec => NamesOnce
<1> DEFINE A == file' # file => \A part \in EntryNames(file'.entries) : Len(file'.entries[part]) = 1
<1>1. ASSUME WorkbookOK, [Next]_vars PROVE [A]_vars
  <2> SUFFICES ASSUME Next, file' # file
               PROVE  \A part \in DOMAIN file'.entries : Len(file'.entries[part]) = 1
    BY <1>1 DEF EntryNames
  <2>1. IsPackage(file) /\ PackageOK(file)
    BY <1>1 DEF WorkbookOK
  <2>2. PICK name \in Names, table \in Tables :
            \/ file' = FreshPackage(name, table)
            \/ CanAppend(file, name) /\ file' = AppendTo(file, name, table)
            \/ CanReplace(file, name) /\ file' = ReplaceIn(file, name, table)
    BY StatementKinds, Zenon
  <2>3. CASE file' = FreshPackage(name, table)
    BY <2>3, FreshEffect
  <2>4. CASE CanAppend(file, name) /\ file' = AppendTo(file, name, table)
    BY <2>1, <2>4, AppendKeeps
  <2>5. CASE CanReplace(file, name) /\ file' = ReplaceIn(file, name, table)
    BY <2>1, <2>5, ReplaceKeeps
  <2> QED
    BY <2>2, <2>3, <2>4, <2>5
<1> QED
  BY <1>1, WorkbookStaysOK, PTL DEF Spec, NamesOnce

-----------------------------------------------------------------------------
(* COPY implements SheetDirectory.                                           *)

(* The book of a package, as Book is that of the file.                       *)
BookOf(pkg) ==
    [i \in DOMAIN pkg.sheets |->
        [name |-> pkg.sheets[i].name, table |-> ReadEntry(pkg.entries, PartOf(pkg, i))]]

LEMMA BookTyped ==
    ASSUME NEW pkg, IsPackage(pkg), PackageOK(pkg)
    PROVE  BookOf(pkg) \in Seq([name : Names, table : Bodies])
<1>1. PICK n \in Nat : n = Len(pkg.sheets) /\ DOMAIN pkg.sheets = 1 .. n
  BY PackageTyped
<1>2. ASSUME NEW i \in 1 .. n
      PROVE  BookOf(pkg)[i] \in [name : Names, table : Bodies]
  <2>1. pkg.sheets[i].name \in Names /\ PartOf(pkg, i) \in DOMAIN pkg.entries
    BY <1>1, PackageTyped, SheetPart
  <2>2. ReadEntry(pkg.entries, PartOf(pkg, i)) \in Bodies
    BY <2>1, ReadEntryTyped
  <2> QED
    BY <1>1, <2>1, <2>2 DEF BookOf
<1> DEFINE book == BookOf(pkg)
<1>3. book = [i \in 1 .. n |-> book[i]]
  BY <1>1 DEF BookOf
<1> HIDE DEF book
<1>4. book \in [1 .. n -> [name : Names, table : Bodies]]
  BY <1>2, <1>3 DEF book
<1>5. book \in Seq([name : Names, table : Bodies])
  BY <1>4, SeqDef
<1> QED
  BY <1>5 DEF book

(* Every statement creates a book, appends a sheet to it, replaces one or    *)
(* leaves it alone.                                                          *)
LEMMA DirectoryStep ==
    ASSUME WorkbookOK, [Next]_vars
    PROVE  [Directory!Next]_Book
<1> SUFFICES ASSUME Next PROVE Directory!Next \/ Book' = Book
  BY DEF vars, Book, PartOf
<1>0. Book = BookOf(file) /\ Book' = BookOf(file')
  BY DEF Book, BookOf
<1>1. IsPackage(file) /\ PackageOK(file)
  BY DEF WorkbookOK
<1>2. PICK name \in Names, table \in Tables :
            \/ file' = FreshPackage(name, table)
            \/ CanAppend(file, name) /\ file' = AppendTo(file, name, table)
            \/ CanReplace(file, name) /\ file' = ReplaceIn(file, name, table)
            \/ file' = file
  BY StatementKinds, Zenon
<1>3. table \in Bodies
  BY DEF Bodies
<1> DEFINE entry == [name |-> name, table |-> table]
<1>4. ASSUME file' = FreshPackage(name, table) PROVE Directory!Next
  <2>1. DOMAIN file'.sheets = {1} /\ file'.sheets[1].name = name
        /\ ReadEntry(file'.entries, PartOf(file', 1)) = table
    <3>1. /\ DOMAIN file'.sheets = {1} /\ file'.sheets = <<[name |-> name, rid |-> RelId(3), id |-> 1]>>
          /\ ReadEntry(file'.entries, Worksheet(1)) = table
      BY <1>4, FreshEffect
    <3>2. PartOf(file', 1) = Worksheet(1)
      BY <1>4, FreshIsOK
    <3> QED
      BY <3>1, <3>2
  <2>2. BookOf(file') = <<entry>>
    <3>1. BookOf(file') = [i \in {1} |-> entry]
      BY <2>1 DEF BookOf
    <3>2. <<entry>> = [i \in {1} |-> entry]
      OBVIOUS
    <3> QED
      BY <3>1, <3>2
  <2> QED
    BY <1>0, <1>3, <2>2 DEF Directory!Next, Directory!Create
<1>5. ASSUME CanAppend(file, name), file' = AppendTo(file, name, table) PROVE Directory!Next
  <2>1. PICK n \in Nat : n = Len(file.sheets) /\ DOMAIN file.sheets = 1 .. n
    BY <1>1, PackageTyped
  <2>2. /\ DOMAIN file'.sheets = 1 .. n + 1
        /\ \A i \in 1 .. n : file'.sheets[i] = file.sheets[i]
        /\ \A i \in 1 .. n : Fold[file.sheets[i].name] # Fold[name]
        /\ file'.sheets[n + 1].name = name
        /\ Rewritten(file.entries, file'.entries, Worksheet(NewIndex(file)), table)
    BY <1>1, <1>5, <2>1, AppendShape
  <2>3. PartOf(file', n + 1) = Worksheet(NewIndex(file))
    BY <1>1, <1>5, <2>1, AppendIsOK
  <2>4. \A i \in 1 .. n :
            ReadEntry(file'.entries, PartOf(file', i)) = ReadEntry(file.entries, PartOf(file, i))
    BY <1>1, <1>5, <2>1, AppendKeeps
  <2>5. ReadEntry(file'.entries, PartOf(file', n + 1)) = table
    BY <2>2, <2>3 DEF Rewritten
  <2>6. BookOf(file') = Append(BookOf(file), entry)
    <3>1. /\ BookOf(file') = [i \in 1 .. n + 1 |-> BookOf(file')[i]]
          /\ \A i \in 1 .. n : BookOf(file')[i] = BookOf(file)[i]
          /\ BookOf(file')[n + 1] = entry
      BY <2>1, <2>2, <2>4, <2>5 DEF BookOf
    <3>2. BookOf(file) \in Seq([name : Names, table : Bodies]) /\ Len(BookOf(file)) = n
      <4>1. DOMAIN BookOf(file) = 1 .. n
        BY <2>1 DEF BookOf
      <4>2. BookOf(file) \in Seq([name : Names, table : Bodies])
        BY <1>1, BookTyped
      <4>3. PICK m \in Nat : m = Len(BookOf(file)) /\ 1 .. m = 1 .. n
        BY <4>1, <4>2, LenProperties
      <4>4. ASSUME m # n PROVE FALSE
        <5>1. \A k \in Int : k \in 1 .. m <=> k \in 1 .. n
          BY <4>3
        <5>2. 1 <= m => m <= n
          BY <5>1
        <5>3. 1 <= n => n <= m
          BY <5>1
        <5> QED
          BY <4>4, <5>2, <5>3
      <4> QED
        BY <4>2, <4>3, <4>4
    <3>3. entry \in [name : Names, table : Bodies]
      BY <1>3
    <3> DEFINE appended == Append(BookOf(file), entry)
    <3>4. /\ appended = [i \in 1 .. n + 1 |-> appended[i]]
          /\ \A i \in 1 .. n : appended[i] = BookOf(file)[i]
          /\ appended[n + 1] = entry
      <4>1. /\ appended \in Seq([name : Names, table : Bodies]) /\ Len(appended) = n + 1
            /\ \A i \in 1 .. n : appended[i] = BookOf(file)[i]
            /\ appended[n + 1] = entry
        BY <3>2, <3>3, AppendProperties
      <4> QED
        BY <4>1, LenProperties
    <3> HIDE DEF appended, entry
    <3>5. \A i \in 1 .. n + 1 : BookOf(file')[i] = appended[i]
      <4> SUFFICES ASSUME NEW i \in 1 .. n + 1 PROVE BookOf(file')[i] = appended[i]
        OBVIOUS
      <4>1. i \in 1 .. n \/ i = n + 1
        OBVIOUS
      <4> QED
        BY <3>1, <3>4, <4>1
    <3> QED
      BY <3>1, <3>4, <3>5, Zenon DEF appended
  <2>7. ~Directory!Taken(name)
    <3>1. \A i \in 1 .. n : BookOf(file)[i].name = file.sheets[i].name
      BY <2>1 DEF BookOf
    <3>2. DOMAIN BookOf(file) = 1 .. n
      BY <2>1 DEF BookOf
    <3> QED
      BY <1>0, <2>2, <3>1, <3>2 DEF Directory!Taken
  <2> QED
    BY <1>0, <1>3, <2>6, <2>7 DEF Directory!Next, Directory!AppendSheet
<1>6. ASSUME CanReplace(file, name), file' = ReplaceIn(file, name, table) PROVE Directory!Next
  <2> DEFINE c == CollisionIndex(file, name)
  <2>1. /\ c \in DOMAIN file.sheets /\ Fold[file.sheets[c].name] = Fold[name]
        /\ file'.sheets = file.sheets
        /\ \A i \in DOMAIN file.sheets :
              /\ i # c => ReadEntry(file'.entries, PartOf(file', i)) = ReadEntry(file.entries, PartOf(file, i))
              /\ i = c => ReadEntry(file'.entries, PartOf(file', i)) = table
    BY <1>1, <1>6, ReplaceKeeps
  <2> HIDE DEF c
  <2>2. BookOf(file') = [BookOf(file) EXCEPT ![c].table = table]
    <3>1. /\ BookOf(file) = [i \in DOMAIN file.sheets |-> BookOf(file)[i]]
          /\ BookOf(file') = [i \in DOMAIN file.sheets |-> BookOf(file')[i]]
          /\ \A i \in DOMAIN file.sheets : i # c => BookOf(file')[i] = BookOf(file)[i]
      BY <2>1 DEF BookOf
    <3>2. BookOf(file')[c] = [BookOf(file)[c] EXCEPT !.table = table]
      <4>1. BookOf(file)[c] = [name |-> file.sheets[c].name, table |-> ReadEntry(file.entries, PartOf(file, c))]
        BY <2>1 DEF BookOf
      <4>2. BookOf(file')[c] = [name |-> file.sheets[c].name, table |-> table]
        BY <2>1 DEF BookOf
      <4> QED
        BY <4>1, <4>2
    <3> QED
      BY <2>1, <3>1, <3>2
  <2>3. c \in DOMAIN BookOf(file) /\ Fold[BookOf(file)[c].name] = Fold[name]
    BY <2>1 DEF BookOf
  <2> QED
    BY <1>0, <1>3, <2>2, <2>3 DEF Directory!Next, Directory!ReplaceSheet
<1>7. ASSUME file' = file PROVE Book' = Book
  BY <1>0, <1>7
<1> QED
  BY <1>2, <1>4, <1>5, <1>6, <1>7

THEOREM CopyImplementsDirectory == Spec => KeepsDirectory
<1>1. Init => Directory!Init
  <2> SUFFICES ASSUME Init PROVE Book \in Seq([name : Names, table : Bodies])
    BY DEF Directory!Init
  <2>1. IsPackage(file) /\ PackageOK(file)
    BY NoFileIsOK, CopyAssumption, WorkbooksAssumption DEF Init
  <2> QED
    BY <2>1, BookTyped DEF Book, BookOf
<1>2. WorkbookOK /\ [Next]_vars => [Directory!Next]_Book
  BY DirectoryStep
<1> QED
  BY <1>1, <1>2, WorkbookStaysOK, PTL DEF Spec, KeepsDirectory, Directory!Spec
=============================================================================
