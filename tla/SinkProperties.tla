--------------------------- MODULE SinkProperties ---------------------------
(***************************************************************************)
(* What CopySink must guarantee: the sheet is the table, the row limit is  *)
(* what the option says, and a file that can be read is never a part of    *)
(* what was to be written.                                                 *)
(***************************************************************************)
EXTENDS CopySink

-----------------------------------------------------------------------------
(* How read_xlsx takes a cell: XLSXCellPos of its letters, its type from t   *)
(* and s, its value by that type.                                            *)

ColumnOf(letters) ==
    LET col[k \in 0 .. Len(letters)] ==
            IF k = 0 THEN 0 ELSE col[k - 1] * Letters + letters[k] + 1
    IN  col[Len(letters)]
KindOf(cell) ==
    CASE cell.t = "b"         -> "BOOLEAN"
      [] cell.t = "inlineStr" -> "VARCHAR"
      [] OTHER                -> IF cell.s = 0 THEN "NUMBER" ELSE CellXfs[cell.s]
KindOfType(type) ==
    CASE type \in Timestamps -> "TIMESTAMP"
      [] type \in Times      -> "TIME"
      [] type \in Numbers    -> "NUMBER"
      [] type \in {"DATE", "BOOLEAN"} -> type
      [] OTHER               -> "VARCHAR"

(* A time may come back rounded to the second, and one just before midnight  *)
(* as 00:00:00.                                                              *)
SameValue(kind, read, value) ==
    CASE kind = "TIMESTAMP" -> Near(read, value)
      [] kind = "TIME"      -> Near(read, value) \/ Near(read + TicksPerDay, value)
      [] OTHER              -> read = value

CellsIn(row, c) == {k \in DOMAIN row.cells : ColumnOf(row.cells[k].column) = c}
HoldsNothing(row, c) == CellsIn(row, c) = {}
HoldsValue(row, c, type, value) ==
    /\ Cardinality(CellsIn(row, c)) = 1
    /\ \A k \in CellsIn(row, c) :
          LET cell == row.cells[k]
          IN  /\ cell.row = row.r
              /\ KindOf(cell) = KindOfType(type)
              /\ SameValue(KindOf(cell), FromSerial(KindOf(cell), cell.v), value)

-----------------------------------------------------------------------------
(* The rows the statement was given, the row of names among them.            *)
RowsOf(chunks) == FoldLeft(LAMBDA n, chunk : n + Rows(chunk), 0, chunks)
Names == IF Header(options) THEN 1 ELSE 0
Given == Names + RowsOf(taken)
InTable == pc \notin {"bind", "refused", "copy", "header"}
TableRow(chunks, n) ==      (* chunk and row of the n-th row of the table      *)
    LET before(k) == RowsOf(SubSeq(chunks, 1, k - 1))
        chunk == CHOOSE k \in DOMAIN chunks : before(k) < n /\ n <= before(k) + Rows(chunks[k])
    IN  <<chunk, n - before(chunk)>>

(* Sink, Execute, EndRow: every row that is written has its number, and in   *)
(* every column either nothing, for a NULL, or one cell that reads back as   *)
(* the value in the column's type: whatever was NULL in earlier chunks, and  *)
(* whichever form the vectors had.  Without an error every row is there.     *)
SheetIsTable ==
    /\ InTable /\ error = "none" => Len(sheet) = Given
    /\ \A n \in DOMAIN sheet :
          /\ sheet[n].r = n
          /\ \A c \in DOMAIN types :
                IF Header(options) /\ n = 1
                THEN HoldsValue(sheet[n], c, "VARCHAR", Title(c))
                ELSE LET at == TableRow(taken, n - Names)
                         value == ValueAt(taken[at[1]][c], at[2])
                     IN  IF value = Null THEN HoldsNothing(sheet[n], c)
                         ELSE HoldsValue(sheet[n], c, types[c], value)
          /\ \A k \in DOMAIN sheet[n].cells : ColumnOf(sheet[n].cells[k].column) \in DOMAIN types

(* ParseCopyToOptions and EndRow: a COPY fails for its row limit when it is  *)
(* given more rows than the limit, names included, and only then; a negative *)
(* limit is no limit.                                                        *)
Exceeds(n) ==
    \/ options.limit = Default /\ n > MaxCellRows
    \/ options.limit # Default /\ options.limit \in Nat /\ n > options.limit
RowLimitHolds ==
    /\ error = "limit" => Exceeds(Given)
    /\ InTable /\ error = "none" => ~Exceeds(Given)

(* ZipFileWriter, Finish, EmitMetadata, ~ZipFileWriter: whatever fails where,*)
(* a file with a directory has no two entries of a name, and when it can be  *)
(* bound and its sheet be parsed to the end then the sheet is the whole      *)
(* table.  After success it can be, and so can the other old parts.          *)
Whole(name) == \E k \in DOMAIN entries : entries[k] = [name |-> name, whole |-> TRUE]
CanRead == directory /\ \A name \in Package \cup {OwnSheet(options)} : Whole(name)
ReadableIsComplete ==
    /\ \A j, k \in DOMAIN entries : j # k => entries[j].name # entries[k].name
    /\ CanRead => error # "limit" /\ Len(sheet) = Given
    /\ pc = "done" =>
          /\ CanRead
          /\ (IsAppend(options) \/ IsReplace(options)) =>
                \A k \in DOMAIN OldEntries : Whole(OldEntries[k])

(* FairSpec: a COPY comes to its end with the file complete, unless its      *)
(* options are refused, its rows are too many or the file system fails; the  *)
(* calls of the zip writer never get in each other's way.                    *)
CopySucceeds ==
    <>((pc = "done" /\ directory) \/ error \in {"option", "limit", "io"})

-----------------------------------------------------------------------------
(***************************************************************************)
(* The inductive invariant.                                                *)
(***************************************************************************)
Kept(o)  == IF IsAppend(o) \/ IsReplace(o) THEN Copied(o) ELSE << >>
Parts(o) == Kept(o) \o <<OwnSheet(o)>> \o Metadata(o)
OwnIx == Len(Kept(options)) + 1
Marks(chunk) == [c \in DOMAIN types |-> Execute(types[c], chunk[c], {})]

Written == {"content_types", "package_rels", "workbook", "workbook_rels", "styles",
            "shared_strings", "app", "core", "sheet1", "sheet2"}
EntryNames == Written \cup Range(OldEntries)
IsSequence(s) == Len(s) \in Nat /\ s = [i \in 1 .. Len(s) |-> s[i]]

TypeOK ==
    /\ options \in Options /\ types \in TypeLists
    /\ taken \in Seq(Chunks(types)) /\ Len(taken) <= MaxChunks
    /\ DOMAIN nulls = DOMAIN types
    /\ IsSequence(sheet)
    /\ entries \in Seq([name : EntryNames, whole : BOOLEAN])
    /\ open \in Written \cup {NoEntry} /\ directory \in BOOLEAN /\ todo \in Seq(EntryNames)
    /\ pc \in {"bind", "refused", "copy", "header", "sink", "metadata", "part", "finished",
                "failed", "done", "left"}
    /\ error \in {"none", "option", "limit", "io"}

(* An error ends the statement, and the directory is the last thing written. *)
ErrorsEnd ==
    /\ pc \notin {"bind", "refused"} => ~Refused(options)
    /\ (error = "none") = (pc \notin {"refused", "failed", "left"})
    /\ directory => pc \in {"done", "left"}
    /\ pc = "done" => directory

(* As long as the statement runs, the rows of the chunks taken are in the    *)
(* sheet and within the limit.                                               *)
RowsCounted ==
    /\ pc \in {"bind", "copy", "header"} => taken = << >> /\ sheet = << >>
    /\ pc \in {"sink", "metadata", "part", "finished", "done"} =>
          Len(sheet) = Given /\ ~Exceeds(Given)
    /\ error = "limit" => Exceeds(Given)

(* The entries are the parts in their order, todo what follows them, and     *)
(* only the last may be unfinished.                                          *)
AllWhole == \A k \in DOMAIN entries : entries[k].whole
TodoFollows(n) == \A i \in DOMAIN todo : todo[i] = Parts(options)[n + i]
EntriesInOrder ==
    /\ Len(entries) <= Len(Parts(options))
    /\ \A k \in DOMAIN entries : /\ entries[k].name = Parts(options)[k]
                                 /\ k < Len(entries) => entries[k].whole
    /\ pc = "bind" => open = NoEntry /\ entries = << >>
    /\ pc = "copy" => /\ open = NoEntry /\ AllWhole /\ TodoFollows(Len(entries))
                      /\ Len(entries) + Len(todo) = Len(Kept(options))
    /\ pc \in {"header", "sink"} => /\ open # NoEntry
                                    /\ Len(entries) = OwnIx /\ ~entries[OwnIx].whole
    /\ pc = "metadata" => /\ open = NoEntry /\ AllWhole /\ TodoFollows(Len(entries))
                          /\ Len(entries) + Len(todo) = Len(Parts(options))
    /\ pc = "part" => /\ open # NoEntry /\ todo # << >> /\ TodoFollows(Len(entries) - 1)
                      /\ Len(entries) + Len(todo) = Len(Parts(options)) + 1
    /\ pc \in {"metadata", "part"} => Len(entries) >= OwnIx
    /\ pc \in {"finished", "done"} => Len(entries) = Len(Parts(options)) /\ AllWhole

(* The sheet's entry is finished only after the last row.                    *)
SheetDone ==
    Len(entries) >= OwnIx /\ entries[OwnIx].whole => error # "limit" /\ Len(sheet) = Given

(* Every row is the one that Sink makes of its row in its chunk.             *)
RowsAreSunk ==
    \A n \in DOMAIN sheet :
       IF Header(options) /\ n = 1 THEN sheet[n] = HeaderRow
       ELSE LET at == TableRow(taken, n - Names)
            IN  /\ at[1] \in DOMAIN taken /\ at[2] \in 1 .. Rows(taken[at[1]])
                /\ sheet[n] = SinkRow(taken[at[1]], Marks(taken[at[1]]), at[2], n)

SinkInv == TypeOK /\ ErrorsEnd /\ RowsCounted /\ EntriesInOrder /\ SheetDone /\ RowsAreSunk
=============================================================================
