--------------------------- MODULE SheetDirectory ---------------------------
(***************************************************************************)
(* What COPY promises about the sheets of a workbook: 'create' leaves one  *)
(* sheet, 'append' adds one behind the others under a name that is not     *)
(* taken, 'replace' changes the contents of one and of no other, and a     *)
(* COPY that cannot do so changes nothing.  Names that differ in case only *)
(* are the same name.                                                      *)
(***************************************************************************)
EXTENDS Integers, Sequences

CONSTANTS Names, Tables, Fold

VARIABLE book      (* the sheets in tab order; << >> when there is no file   *)

Taken(name) == \E i \in DOMAIN book : Fold[book[i].name] = Fold[name]

Create(name, table) == book' = <<[name |-> name, table |-> table]>>

AppendSheet(name, table) ==
    /\ ~Taken(name)
    /\ book' = Append(book, [name |-> name, table |-> table])

ReplaceSheet(name, table) ==
    \E i \in DOMAIN book :
        /\ Fold[book[i].name] = Fold[name]
        /\ book' = [book EXCEPT ![i].table = table]

Init == book \in Seq([name : Names, table : Tables])

Next == \E name \in Names, table \in Tables :
            Create(name, table) \/ AppendSheet(name, table) \/ ReplaceSheet(name, table)

Spec == Init /\ [][Next]_book
=============================================================================
