---------------------------- MODULE MCSheetSniff ----------------------------
(* Rows and options for the small instances of SheetSniff.                   *)
EXTENDS SniffProperties

Shapes ==
    { <<"text", "text", "text">>, <<"blank", "text", "absent">>, <<"absent", "text", "number">>,
      <<"number", "blank", "text">>, <<"formula", "absent", "unknown">>, <<"blank", "absent", "absent">>,
      <<"absent", "text", "blank">> }

Request(explicit, range_given, mode, type, varchar) ==
    [has_explicit_range |-> explicit, range |-> range_given, header_mode |-> mode,
     default_cell_type |-> type, all_varchar |-> varchar]
Modes == {"NEVER", "MAYBE", "FORCE"}

SomeRequests ==
    { Request(FALSE, WholeSheet, mode, type, varchar) :
        mode \in Modes, type \in {"NUMBER", "INLINE_STRING"}, varchar \in BOOLEAN }
    \cup { Request(TRUE, r, mode, "INLINE_STRING", FALSE) :
             mode \in Modes, r \in {r \in Ranges : IsRange(r) /\ r.beg.col \in {1, 2} /\ r.end.col \in {3, 4}} }
=============================================================================
