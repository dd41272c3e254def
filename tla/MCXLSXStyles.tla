---------------------------- MODULE MCXLSXStyles ----------------------------
(* Stylesheets for the small instances of XLSXStyles.                        *)
EXTENDS StylesProperties

Fmt(id, code) == [id |-> id, code |-> code]

(* Up to two formats under custom ids with gaps, in either order, and up to  *)
(* three styles for them, for built-in formats and for none.                 *)
SomeFormats ==
    {<< >>}
    \cup {<<Fmt(id, code)>> : id \in {164, 170}, code \in {"dd/mm/yy", "hh:mm:ss", "yyyy-mm-dd"}}
    \cup {<<Fmt(a, "General"), Fmt(b, code)>> :
             a \in {168}, b \in {164, 165, 169}, code \in {"TRUE/FALSE", "dd/mm/yyyy hh:mm:ss.000"}}

DefinedIds(fmts) == {0, 14, 22} \cup {fmts[i].id : i \in DOMAIN fmts}

WellFormed ==
    UNION { { [num_fmts |-> fmts, cell_xfs |-> <<0>> \o xfs] :
                 xfs \in {<< >>} \cup [1 .. 1 -> DefinedIds(fmts)] \cup [1 .. 2 -> DefinedIds(fmts)] } :
            fmts \in SomeFormats }

SomeAdditions == {Fmt(165, "General"), Fmt(171, "hh:mm:ss"), Fmt(180, "yyyy-mm-dd")}
=============================================================================
