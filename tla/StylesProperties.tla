-------------------------- MODULE StylesProperties --------------------------
(* What must hold of styles.xml and the cells that refer to it.              *)
EXTENDS XLSXStyles

(* CellsKeepTypes: every date, time and timestamp the extension has written, *)
(* by whatever path, is read back as what it is, now and after any number of *)
(* further appends and edits; no format is spliced in under an id that is    *)
(* taken.                                                                    *)
CellsKeepTypes ==
    /\ styles \in Stylesheets
    /\ \A c \in cells : ReadType(styles, c.s) = CodeType(Needed[c.kind])
    /\ \A i, j \in DOMAIN styles.num_fmts : styles.num_fmts[i].id = styles.num_fmts[j].id => i = j

(* Settled: a workbook the extension has written to needs no further patch,  *)
(* so that styles.xml does not grow with every append.                       *)
Settled == cells # {} => ~NeedsPatch(styles)

(* OldStylesStay: cells of all sheets refer to styles by position, so every  *)
(* style stays at its position and keeps the type it is read as.             *)
OldStylesStay ==
    [][\A i \in DOMAIN styles.cell_xfs :
         /\ i \in DOMAIN styles'.cell_xfs /\ styles'.cell_xfs[i] = styles.cell_xfs[i]
         /\ ReadType(styles', i - 1) = ReadType(styles, i - 1)]_vars

-----------------------------------------------------------------------------
(* A stylesheet that means to the reader what its producer meant: no two     *)
(* formats with one id, none of the five codes under a built-in id, which    *)
(* the reader takes for another format, and a format for every style.        *)
SoundStyles(sheet) ==
    /\ \A i, j \in DOMAIN sheet.num_fmts : sheet.num_fmts[i].id = sheet.num_fmts[j].id => i = j
    /\ \A i \in DOMAIN sheet.num_fmts, k \in DOMAIN Needed :
           sheet.num_fmts[i].code = Needed[k] => sheet.num_fmts[i].id > 163
    /\ \A x \in DOMAIN sheet.cell_xfs :
           sheet.cell_xfs[x] > 163 => Registered(sheet, sheet.cell_xfs[x]) # {}

ASSUME SoundAssumption ==
    /\ \A sheet \in ThirdParty : SoundStyles(sheet)
    /\ \A fmt \in Additions : fmt.id > 163 /\ fmt.code # "none"

(* The first format with the code, and a style that uses it.                 *)
FormatsFor(fmts, code) == {i \in DOMAIN fmts : fmts[i].code = code}
HasStyle(fmts, xfs, code) ==
    /\ FormatsFor(fmts, code) # {}
    /\ \E x \in DOMAIN xfs : xfs[x] = fmts[First(FormatsFor(fmts, code))].id

(* StylesInv: why the two invariants hold.  Every cell's index is one of a   *)
(* style that there is, and once the extension has written to the workbook,  *)
(* what ResolveStyles looks for is found, under the ids it finds first.      *)
StylesInv ==
    /\ styles \in Stylesheets /\ SoundStyles(styles)
    /\ \A c \in cells : /\ c.kind \in DOMAIN Needed /\ c.s \in Nat /\ c.s < Len(styles.cell_xfs)
                        /\ ReadType(styles, c.s) = CodeType(Needed[c.kind])
    /\ cells # {} => \A k \in DOMAIN Needed : HasStyle(styles.num_fmts, styles.cell_xfs, Needed[k])
=============================================================================
