----------------------------- MODULE XLSXStyles -----------------------------
(***************************************************************************)
(* Cell styles.  A cell refers by position to an <xf> of styles.xml, which *)
(* refers by id to a number format; the reader takes the type of a number  *)
(* from the format's code.  The writer of a fresh workbook uses fixed      *)
(* positions; the appender looks for formats and styles that are there     *)
(* (ResolveStyles) and splices what is missing into the old styles.xml     *)
(* (PatchStylesXml), whose positions the cells of all other sheets use.    *)
(***************************************************************************)
EXTENDS Integers, Sequences

CONSTANTS
    ThirdParty,   (* stylesheets of other producers                          *)
    Additions,    (* number formats another program may add with a style     *)
    MaxChanges    (* bound: appends and edits                                *)

(* Format codes, abstracted to what they are: the five the writer needs, a   *)
(* date and a plain number in codes of their own, and no code at all.        *)
Codes == {"dd/mm/yy", "dd/mm/yyyy hh:mm:ss", "hh:mm:ss", "dd/mm/yyyy hh:mm:ss.000", "TRUE/FALSE",
          "yyyy-mm-dd", "General", "none"}

Stylesheets == [num_fmts : Seq([id : Nat, code : Codes]), cell_xfs : Seq(Nat)]

ASSUME StylesAssumption ==
    /\ ThirdParty \subseteq Stylesheets
    /\ Additions \subseteq [id : Nat, code : Codes]
    /\ MaxChanges \in Nat

-----------------------------------------------------------------------------
(* The reader: XLSXStyleParser.                                              *)

CodeType(code) ==
    CASE code \in {"dd/mm/yyyy hh:mm:ss", "dd/mm/yyyy hh:mm:ss.000"} -> "TIMESTAMP"
      [] code \in {"dd/mm/yy", "yyyy-mm-dd"} -> "DATE"
      [] code = "hh:mm:ss" -> "TIME"
      [] OTHER -> "DOUBLE"

BuiltinType(id) ==
    CASE id \in 14 .. 17 -> "DATE" [] id \in 18 .. 21 -> "TIME" [] id = 22 -> "TIMESTAMP" [] OTHER -> "DOUBLE"

(* number_formats: of equal ids the first is kept, built-in ids are ignored. *)
Registered(sheet, id) ==
    {i \in DOMAIN sheet.num_fmts : /\ sheet.num_fmts[i].id = id /\ id > 163
                                   /\ sheet.num_fmts[i].code # "none"}
FormatType(sheet, id) ==
    CodeType(sheet.num_fmts[CHOOSE i \in Registered(sheet, id) : \A j \in Registered(sheet, id) : i <= j].code)

(* cell_styles, pushed one by one while the <xf> elements go by; an <xf>     *)
(* whose format is not registered pushes nothing.                            *)
CellStyles(sheet) ==
    LET upto[k \in 0 .. Len(sheet.cell_xfs)] ==
            IF k = 0 THEN << >>
            ELSE LET id == sheet.cell_xfs[k]
                 IN  CASE id < 164 -> Append(upto[k - 1], BuiltinType(id))
                       [] id >= 164 /\ Registered(sheet, id) # {} -> Append(upto[k - 1], FormatType(sheet, id))
                       [] OTHER -> upto[k - 1]
    IN  upto[Len(sheet.cell_xfs)]

(* XLSXStyleSheet::GetFormat: the attribute s counts from 0.                 *)
ReadType(sheet, s) ==
    IF s < Len(CellStyles(sheet)) THEN CellStyles(sheet)[s + 1] ELSE "none"

-----------------------------------------------------------------------------
(* XLXSWriter::WriteStyles and its default style indexes.                    *)

Needed == <<"dd/mm/yy", "dd/mm/yyyy hh:mm:ss", "hh:mm:ss", "dd/mm/yyyy hh:mm:ss.000", "TRUE/FALSE">>

FreshStyles ==
    [num_fmts |-> [i \in 1 .. 6 |-> [id |-> 163 + i, code |-> IF i = 1 THEN "General" ELSE Needed[i - 1]]],
     cell_xfs |-> [i \in 1 .. 6 |-> 163 + i]]
FreshIndexes == <<1, 2, 3, 4, 5>>

-----------------------------------------------------------------------------
(* The appender: ResolveStyles works through Needed; an accumulator holds    *)
(* effective_num_fmts, effective_cell_xfs, next_custom_id and the indexes.   *)

NextCustomId(sheet) ==
    LET above == {sheet.num_fmts[i].id : i \in DOMAIN sheet.num_fmts} \ (0 .. 164)
    IN  IF above = {} THEN 165 ELSE (CHOOSE id \in above : \A other \in above : other <= id) + 1

First(S) == CHOOSE i \in S : \A j \in S : i <= j

ResolveFormat(acc, code) ==
    LET found == {i \in DOMAIN acc.num_fmts : acc.num_fmts[i].code = code}
    IN  IF found # {} THEN [acc EXCEPT !.id = acc.num_fmts[First(found)].id]
        ELSE [acc EXCEPT !.id = acc.next, !.next = acc.next + 1,
                         !.num_fmts = Append(@, [id |-> acc.next, code |-> code])]

ResolveXfAlwaysNew(acc) ==
    [acc EXCEPT !.indexes = Append(@, Len(acc.cell_xfs)),
                !.cell_xfs = Append(@, acc.id)]
ResolveXf(acc) ==
    LET found == {i \in DOMAIN acc.cell_xfs : acc.cell_xfs[i] = acc.id}
    IN  IF found # {} THEN [acc EXCEPT !.indexes = Append(@, First(found) - 1)]
        ELSE [acc EXCEPT !.indexes = Append(@, Len(acc.cell_xfs)),
                         !.cell_xfs = Append(@, acc.id)]

ResolveStyles(sheet) ==
    LET upto[k \in 0 .. Len(Needed)] ==
            IF k = 0 THEN [num_fmts |-> sheet.num_fmts, cell_xfs |-> sheet.cell_xfs,
                           next |-> NextCustomId(sheet), id |-> 0, indexes |-> << >>]
            ELSE ResolveXf(ResolveFormat(upto[k - 1], Needed[k]))
    IN  upto[Len(Needed)]

NeedsPatch(sheet) ==
    LET resolved == ResolveStyles(sheet)
    IN  resolved.num_fmts # sheet.num_fmts \/ resolved.cell_xfs # sheet.cell_xfs

(* PatchStylesXml: the inserted formats go behind the old ones, or into a    *)
(* block of their own in front when there is no block; the inserted <xf>     *)
(* elements always go behind the old ones.                                   *)
PatchXfsInFront(sheet) ==
    LET resolved == ResolveStyles(sheet)
        added    == SubSeq(resolved.cell_xfs, Len(sheet.cell_xfs) + 1, Len(resolved.cell_xfs))
    IN  [num_fmts |-> resolved.num_fmts, cell_xfs |-> added \o sheet.cell_xfs]
PatchStylesXml(sheet) ==
    [num_fmts |-> ResolveStyles(sheet).num_fmts, cell_xfs |-> ResolveStyles(sheet).cell_xfs]

-----------------------------------------------------------------------------
VARIABLES
    styles,    (* styles.xml                                                 *)
    cells,     (* what the extension has written: a kind and its index       *)
    changes    (* appends and edits so far                                   *)

vars == <<styles, cells, changes>>

Written(indexes) == {[kind |-> k, s |-> indexes[k]] : k \in DOMAIN Needed}

Init ==
    /\ changes = 0
    /\ \/ styles = FreshStyles /\ cells = Written(FreshIndexes)
       \/ styles \in ThirdParty /\ cells = {}

(* A COPY with mode append or replace that writes cells of every kind.       *)
WriteSheet ==
    /\ changes < MaxChanges
    /\ changes' = changes + 1
    /\ cells' = cells \cup Written(ResolveStyles(styles).indexes)
    /\ styles' = IF NeedsPatch(styles) THEN PatchStylesXml(styles) ELSE styles

(* Another program adds a number format under an id that is free, and a cell *)
(* style for it, and leaves the others where they are.                       *)
OtherProgramAdds ==
    /\ changes < MaxChanges
    /\ changes' = changes + 1
    /\ \E fmt \in Additions :
         /\ \A i \in DOMAIN styles.num_fmts : styles.num_fmts[i].id # fmt.id
         /\ styles' = [num_fmts |-> Append(styles.num_fmts, fmt),
                       cell_xfs |-> Append(styles.cell_xfs, fmt.id)]
    /\ UNCHANGED cells

Next == WriteSheet \/ OtherProgramAdds
Spec == Init /\ [][Next]_vars
=============================================================================
