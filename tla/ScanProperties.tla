--------------------------- MODULE ScanProperties ---------------------------
(***************************************************************************)
(* What read_xlsx promises about the rows of a worksheet, and the          *)
(* properties of SheetScan that say the streaming scan keeps the promise.  *)
(***************************************************************************)
EXTENDS SheetScan

(* A row is empty when none of its cells inside the range holds data; a row  *)
(* number without a <row> element is an empty row too.                       *)
RowIsEmpty(r) == r \in Rows => \A c \in RangeCols : ~HasData(sheet[r].cells[c])

(* The first sheet row that is not part of the table any more: the end of    *)
(* the range, the first empty row with stop_at_empty, otherwise (range not   *)
(* explicit) whatever follows the last <row> element.                        *)
TableEndsAt(r) ==
    \/ r = range.end.row
    \/ opts.stop_at_empty /\ RowIsEmpty(r)
    \/ ~opts.stop_at_empty /\ ~opts.has_explicit_range
         /\ \A q \in Rows : ContainsRow(q) => q < r

PromisedRows == CHOOSE n \in 0 .. MaxRow :
                  /\ TableEndsAt(range.beg.row + n)
                  /\ \A m \in 0 .. n - 1 : ~TableEndsAt(range.beg.row + m)

(* A cell the cast rejects is NULL with ignore_errors; without it the value  *)
(* stays the raw datum, which no output may contain.                         *)
PromisedValue(r, c) ==
    IF r \notin Rows THEN Null
    ELSE LET v == CellValue(sheet[r].cells[c], r, c)
         IN  IF v.kind = "bad" /\ ~opts.ignore_errors THEN v ELSE CastValue(v, c)

Promised == [i \in 1 .. PromisedRows |->
               [c \in RangeCols |-> PromisedValue(range.beg.row + i - 1, c)]]

MayFail ==
    \/ \E r \in Rows, c \in Cols : sheet[r].cells[c] = "badref"
    \/ ~opts.ignore_errors /\
         \E r \in Rows, c \in RangeCols : sheet[r].cells[c] = "bad" /\ ContainsRow(r) /\ c \in TypedCols

Phase == CASE pc = "done" -> "complete" [] pc = "failed" -> "failed" [] OTHER -> "scanning"

Table == INSTANCE TableScan WITH table <- Promised, may_fail <- MayFail, phase <- Phase

-----------------------------------------------------------------------------
(* Every variable has its type: the shape of the parser's, the chunk's and   *)
(* the loop's state that Execute and SheetParser maintain.                   *)
Value(kinds) == [kind : kinds, row : 0 .. MaxRow, col : 0 .. MaxCol]
ChunkKinds   == {"null", "stale", "empty_text", "good", "bad", "badref"}
TypeOK ==
    /\ sheet \in Worksheets /\ range \in Ranges /\ opts \in Options
    /\ blocks_left \in 0 .. MaxBlocks
    /\ status \in {"OK", "SUSPENDED", "ABORTED"} /\ xml \in {"OK", "SUSPENDED", "ABORTED"}
    /\ state \in {"SHEETDATA", "ROW"}
    /\ cell_pos \in [row : 0 .. MaxRow, col : 0 .. MaxCol]
    /\ chunk \in [Slots -> [RangeCols -> Value(ChunkKinds)]]
    /\ size \in 0 .. VectorSize
    /\ sheet_row_number \in [Slots -> 0 .. MaxRow]
    /\ out_index \in Slots
    /\ last_col \in 0 .. MaxCol /\ last_row \in 0 .. MaxRow /\ curr_row \in 1 .. MaxRow + 1
    /\ is_row_empty \in BOOLEAN
    /\ pc \in {"idle", "loop", "parse", "fill", "cast", "done", "failed"}
    /\ output \in Seq([RangeCols -> Value(ChunkKinds)])
    /\ error \in [row : 0 .. MaxRow, col : 0 .. MaxCol]

(* Refinement: whatever the blocks, the gaps between rows and the size of    *)
(* the chunk, Execute's calls deliver exactly the rows of the range, in      *)
(* order, NULL where the worksheet has nothing, and end only after the last. *)
KeepsPromise == Table!Spec

(* The exception of TryCastFromString names a cell of the range that really  *)
(* holds the datum the cast rejected (GetCellName goes through               *)
(* sheet_row_number, which three functions maintain).                        *)
ErrorNamesCell ==
    error # NoRef => /\ error.row \in Rows /\ ContainsPos(error.row, error.col)
                     /\ sheet[error.row].cells[error.col] = "bad"

(* The scan ends: no interleaving of suspension, padding and reading makes   *)
(* Execute wait for input that never comes or return full chunks forever.    *)
ScanEnds == <>(pc \in {"done", "failed"})

(* Once the whole table has been read, every datum of the range is in the    *)
(* output exactly once, in its column, and data of later rows come later -   *)
(* even with <row r="5"/> elements, whose gaps are mishandled.               *)
Places(r, c) == {i \in 1 .. Len(output) : output[i][c] = Datum("good", r, c)}
DataOnceInOrder ==
    (pc = "done" /\ ~opts.stop_at_empty) =>
       \A r \in Rows, c \in RangeCols :
         (ContainsRow(r) /\ sheet[r].cells[c] = "good") =>
            \E i \in 1 .. Len(output) :
               /\ Places(r, c) = {i}
               /\ \A q \in Rows, d \in RangeCols :
                     q > r => \A j \in Places(q, d) : i < j

(* No reused vector leaks an old value: padding covers every column a row    *)
(* does not mention, so what Execute returns was written for this chunk.     *)
NothingStale == \A i \in 1 .. Len(output), c \in RangeCols : output[i][c].kind # "stale"

(* An explicit range that is read to its end yields one row per sheet row    *)
(* ("Fill empty rows to the end of the range").                              *)
ExplicitRangeComplete ==
    (pc = "done" /\ opts.has_explicit_range /\ ~opts.stop_at_empty) =>
       Len(output) = range.end.row - range.beg.row

(* The i-th row delivered is the i-th row of the range: what it holds comes  *)
(* from that sheet row and from the right column, however the scan was cut   *)
(* into chunks and blocks.                                                   *)
HasDatum(v) == v.kind \notin {"null", "stale"}
RowsLineUp ==
    \A i \in 1 .. Len(output), c \in RangeCols :
       HasDatum(output[i][c]) => /\ output[i][c].row = range.beg.row + i - 1
                                 /\ output[i][c].col = c

-----------------------------------------------------------------------------
(* Inductive invariants.  CoreInv strengthens TypeOK and holds for every     *)
(* worksheet; ScanInv adds what RowsLineUp, NothingStale and                 *)
(* ExplicitRangeComplete need, for worksheets without <row r="5"/> elements. *)

InCall  == pc \in {"loop", "parse", "fill", "cast"}
Filling == opts.has_explicit_range /\ ~opts.stop_at_empty
Live    == status # "ABORTED" /\ xml # "ABORTED"
InRow   == state = "ROW" /\ ContainsRow(cell_pos.row)

(* As long as rows are still written, out_index is the next free slot, and 0 *)
(* when the chunk is full or handed over.                                    *)
SlotsCounted ==
    (Filling \/ Live) =>
      /\ pc \in {"loop", "parse", "fill"} => out_index = IF size = VectorSize THEN 0 ELSE size
      /\ pc \in {"cast", "idle"} => out_index = 0

RowBounds ==
    /\ range.beg.row - 1 <= last_row /\ last_row < range.end.row
    /\ curr_row = range.beg.row \/ ContainsRow(curr_row)
    /\ range.beg.col - 1 <= last_col /\ last_col < range.end.col
    /\ state = "ROW" => cell_pos.row \in Rows

(* What the loop knows about the parser: status repeats it, a full chunk is  *)
(* only ever left by suspending, and a parser that is not suspended still    *)
(* has input.                                                                *)
LoopStatus ==
    /\ pc \in {"idle", "loop", "fill", "cast"} => status = xml \/ status = "ABORTED"
    /\ pc = "loop" /\ status = "OK" => ~IsDone
    /\ size = VectorSize /\ Live => xml = "SUSPENDED"
    /\ size = VectorSize /\ pc = "parse" => state = "SHEETDATA"
    /\ pc \in {"fill", "cast"} /\ Live => size = VectorSize
    /\ pc = "idle" /\ Live => size = VectorSize \/ (xml = "OK" /\ state = "SHEETDATA" /\ ~IsDone)
    /\ pc = "parse" => status # "ABORTED"

(* The type invariant made inductive: the loop, the parser and the chunk     *)
(* agree on the slot that is written next and on the rows that remain.       *)
CoreInv == TypeOK /\ SlotsCounted /\ RowBounds /\ LoopStatus

NoSelfClosing == \A shape \in RowShapes : ~shape.selfclosing

(* last_row counts the rows written: those returned and those in the chunk.  *)
RowsCounted ==
    (Filling \/ Live) =>
      /\ InCall => last_row = range.beg.row - 1 + Len(output) + size
      /\ pc = "idle" => last_row = range.beg.row - 1 + Len(output)

(* Where the parser is relative to the rows written.                         *)
ParserPosition ==
    Live =>
      /\ InRow => curr_row = cell_pos.row /\ last_row < curr_row
      /\ InRow /\ xml = "OK" => last_row + 1 = curr_row
      /\ InRow /\ xml = "SUSPENDED" => last_col = range.beg.col - 1
      /\ ~InRow => last_row + 1 >= curr_row
      /\ ~InRow => last_row <= cell_pos.row \/ last_row = range.beg.row - 1

(* Finished slots hold the rows they are counted for, the slot being written *)
(* holds the current row, later slots hold nothing.                          *)
SlotsLineUp ==
    InCall =>
      /\ \A s \in Slots, c \in RangeCols :
           s < size => /\ chunk[s][c].kind # "stale"
                       /\ HasDatum(chunk[s][c]) => /\ chunk[s][c].row = range.beg.row + Len(output) + s
                                                   /\ chunk[s][c].col = c
      /\ Live => \A s \in Slots, c \in RangeCols :
           s >= size /\ HasDatum(chunk[s][c]) =>
             s = size /\ InRow /\ chunk[s][c].row = cell_pos.row /\ chunk[s][c].col = c
      /\ Live /\ InRow => \A c \in RangeCols : c <= last_col => chunk[out_index][c].kind # "stale"

FilledToEnd ==
    Filling => /\ pc = "cast" /\ size < VectorSize => last_row + 1 >= range.end.row
               /\ pc = "done" => Len(output) + range.beg.row = range.end.row

(* The i-th row delivered is the i-th row of the range, and no reused vector *)
(* leaks, as an invariant every single callback and loop step preserves.     *)
ScanInv == /\ CoreInv /\ RowsCounted /\ ParserPosition /\ SlotsLineUp /\ FilledToEnd
           /\ RowsLineUp /\ NothingStale

-----------------------------------------------------------------------------
(* What the chunk holds, cell by cell.  DataInv holds for every worksheet;   *)
(* PromiseInv adds, for worksheets without <row r="5"/> elements, that the   *)
(* rows written are those of Promised and that the scan ends where it does.  *)

RawValue(r, c) == IF r \in Rows THEN CellValue(sheet[r].cells[c], r, c) ELSE Null

(* The <row> elements the parser has left behind.                            *)
Finished(r) == r < cell_pos.row \/ (r = cell_pos.row /\ state = "SHEETDATA")

(* A finished slot is a padded row or a whole row of the worksheet, the one  *)
(* sheet_row_number names.                                                   *)
HoldsRow(s, r) == /\ r \in Rows /\ ContainsRow(r) /\ Finished(r)
                  /\ \A c \in RangeCols : chunk[s][c] = RawValue(r, c)
SlotsHoldRows ==
    InCall => \A s \in Slots :
      s < size => (\A c \in RangeCols : chunk[s][c] = Null) \/ HoldsRow(s, sheet_row_number[s])

(* The row being written is right up to last_col; what lies between last_col *)
(* and the cell read last is absent; is_row_empty knows what was seen.       *)
RowInProgress ==
    /\ state = "ROW" => xml # "ABORTED"
    /\ InRow /\ xml = "SUSPENDED" => last_col = range.beg.col - 1
    /\ InRow => /\ last_col <= cell_pos.col \/ last_col = range.beg.col - 1
                /\ \A c \in RangeCols : (last_col < c /\ c <= cell_pos.col) => Kind(c) = "absent"
                /\ is_row_empty <=> \A c \in RangeCols : c <= last_col => ~HasData(Kind(c))
    /\ InCall /\ InRow /\ Live =>
         \A c \in RangeCols : c <= last_col => chunk[out_index][c] = RawValue(cell_pos.row, c)

(* Data of different rows are delivered in the order of their rows, and what *)
(* is in the chunk comes from later rows than what was delivered.            *)
DeliveredFinished ==
    \A i \in 1 .. Len(output), c \in RangeCols :
      HasDatum(output[i][c]) => Finished(output[i][c].row)
DeliveredInOrder ==
    \A i, j \in 1 .. Len(output), c, d \in RangeCols :
      (HasDatum(output[i][c]) /\ HasDatum(output[j][d])) =>
         /\ i < j => output[i][c].row < output[j][d].row
         /\ i = j => output[i][c].row = output[j][d].row
SlotsInOrder ==
    InCall => \A s \in Slots, c, d \in RangeCols :
      (s < size /\ HasDatum(chunk[s][c])) =>
         /\ \A i \in 1 .. Len(output) :
              HasDatum(output[i][d]) => output[i][d].row < chunk[s][c].row
         /\ \A t \in Slots :
              (s < t /\ t < size /\ HasDatum(chunk[t][d])) => chunk[s][c].row < chunk[t][d].row
DataInOrder == DeliveredFinished /\ DeliveredInOrder /\ SlotsInOrder

(* No datum the parser has passed is lost: it is delivered or in the chunk.  *)
Kept(r, c) ==
    \/ \E i \in 1 .. Len(output) : output[i][c] = Datum("good", r, c)
    \/ InCall /\ \E s \in Slots : s < size /\ chunk[s][c] = Datum("good", r, c)
DataComplete ==
    /\ (~opts.stop_at_empty /\ pc # "failed") =>
         \A r \in Rows, c \in RangeCols :
           (ContainsRow(r) /\ Finished(r) /\ sheet[r].cells[c] = "good") => Kept(r, c)
    /\ (~opts.stop_at_empty /\ ~Live) => \A r \in Rows : Finished(r)
    /\ pc = "done" => ~Live

DataInv == SlotsHoldRows /\ RowInProgress /\ DataInOrder /\ DataComplete /\ ErrorNamesCell

(* The rows written so far, delivered or in the chunk.                       *)
Written == Len(output) + (IF InCall THEN size ELSE 0)

SlotsHoldTable ==
    InCall => \A s \in Slots, c \in RangeCols :
      s < size => chunk[s][c] = RawValue(range.beg.row + Len(output) + s, c)

OutputIsTable ==
    \A i \in 1 .. Len(output), c \in RangeCols :
      output[i][c] = PromisedValue(range.beg.row + i - 1, c)

(* The parser is never ahead of the rows counted in last_row.                *)
RowsAccounted ==
    (Live \/ ~opts.stop_at_empty) =>
       \A r \in Rows : (ContainsRow(r) /\ Finished(r)) => r <= last_row

(* No row is written beyond the end of the table, and an aborted scan has    *)
(* written all of it, but for the padding FillRows adds.                     *)
TableGoesOn == \A m \in 0 .. Written - 1 : ~TableEndsAt(range.beg.row + m)
TableIsOver == (~Live /\ ~Filling /\ pc # "failed") => TableEndsAt(range.beg.row + Written)

PromiseInv == SlotsHoldTable /\ OutputIsTable /\ RowsAccounted /\ TableGoesOn /\ TableIsOver

(* Everything the scan keeps invariant: the parser, the loop and the chunk   *)
(* agree at every callback, and what they have written is the table.         *)
TableInv == ScanInv /\ DataInv /\ PromiseInv
=============================================================================
