----------------------------- MODULE SheetScan -----------------------------
(***************************************************************************)
(* The streaming scan of read_xlsx: one worksheet entry is read block by   *)
(* block, expat turns the blocks into element callbacks, SheetParser puts  *)
(* cells into a chunk of VectorSize rows and suspends the parser whenever  *)
(* the chunk is full or rows are missing, and Execute drives the three of  *)
(* them and hands one chunk per call to DuckDB.                            *)
(*                                                                         *)
(* The worksheet, the range and the options are chosen in Init and never   *)
(* change.  The document is not materialised as a list of events: the next *)
(* callback is determined by the worksheet and by cell_pos, as in the code.*)
(*                                                                         *)
(* Some definitions have a mutant in front of them, a plausible bug under  *)
(* a longer name (SkippedRowsAndOneMore).  Nothing uses the mutants; they  *)
(* stand in for the definition to show that a property notices the bug.    *)
(***************************************************************************)
EXTENDS Integers, Sequences

CONSTANTS
    VectorSize,   (* STANDARD_VECTOR_SIZE                                    *)
    MaxRow,       (* bound: rows of a worksheet are 1 .. MaxRow              *)
    MaxCol,       (* bound: columns of a worksheet are 1 .. MaxCol           *)
    MaxBlocks,    (* bound: reads of BUFFER_SIZE bytes that empty the entry  *)
    RowShapes,    (* the <row> elements a worksheet is built from            *)
    TypedCols     (* columns whose target type is not VARCHAR                *)

(* What a <c> element holds: "absent" no element at all; "blank" an element  *)
(* without data; "empty_text" an inline string without data; "good" data the *)
(* cast to the column's type accepts; "bad" data it rejects; "badref" a cell *)
(* reference that does not belong to the row.                                *)
CellKinds == {"absent", "blank", "empty_text", "good", "bad", "badref"}

Cols == 1 .. MaxCol

(* A <row> element: its cells, and whether it is written <row r="5"/>.       *)
RowElements == { shape \in [cells : [Cols -> CellKinds], selfclosing : BOOLEAN] :
                   shape.selfclosing => \A c \in Cols : shape.cells[c] = "absent" }

ASSUME ScanAssumption ==
    /\ VectorSize \in Nat \ {0}
    /\ MaxRow \in Nat \ {0}
    /\ MaxCol \in Nat \ {0}
    /\ MaxBlocks \in Nat \ {0}
    /\ RowShapes \subseteq RowElements
    /\ TypedCols \subseteq Cols

VARIABLES
    sheet,            (* the worksheet: its row numbers, each with its element *)
    range, opts,      (* bind_data.options                                     *)
    blocks_left,      (* unread part of the zip entry, in blocks               *)
    status,           (* gstate.status                                         *)
    xml,              (* XMLParser::state                                      *)
    state, cell_pos,  (* SheetParserBase                                       *)
    chunk, size,      (* SheetParser::chunk, its vectors and its cardinality   *)
    sheet_row_number, out_index, last_col, last_row, curr_row, is_row_empty,
    pc,               (* where the thread that runs Execute is                 *)
    output,           (* every row handed to DuckDB so far                     *)
    error             (* the cell an exception named                           *)

parserVars == <<xml, state, cell_pos, chunk, size, sheet_row_number, out_index,
                last_col, last_row, curr_row, is_row_empty>>
fixedVars  == <<sheet, range, opts>>
vars == <<fixedVars, blocks_left, status, parserVars, pc, output, error>>

-----------------------------------------------------------------------------
(* Values of a cell of the chunk.  A datum remembers the worksheet cell it   *)
(* came from; Stale is whatever a reused vector holds before it is written.  *)

Null  == [kind |-> "null",  row |-> 0, col |-> 0]
Stale == [kind |-> "stale", row |-> 0, col |-> 0]
Datum(kind, r, c) == [kind |-> kind, row |-> r, col |-> c]

Slots  == 0 .. VectorSize - 1
NoRef  == [row |-> 0, col |-> 0]
Lesser(a, b) == IF a <= b THEN a ELSE b

(* XLSXCellRange: the beginning is inclusive, the end exclusive. *)
ContainsRow(r)    == range.beg.row <= r /\ r < range.end.row
ContainsCol(c)    == range.beg.col <= c /\ c < range.end.col
ContainsPos(r, c) == ContainsRow(r) /\ ContainsCol(c)
RangeCols == {c \in Cols : ContainsCol(c)}

StaleRow == [c \in RangeCols |-> Stale]
NullRow  == [c \in RangeCols |-> Null]

(* What GetData puts in the chunk for a cell of kind k.                      *)
CellValue(k, r, c) == IF k \in {"absent", "blank"} THEN Null ELSE Datum(k, r, c)
HasData(k) == k \in {"good", "bad"}

Rows == DOMAIN sheet
IsNextRow(r) == r \in Rows /\ r > cell_pos.row /\ \A q \in Rows : q > cell_pos.row => r <= q
Kind(c) == sheet[cell_pos.row].cells[c]
IsNextCell(c) ==
    /\ c \in Cols /\ c > cell_pos.col /\ Kind(c) # "absent"
    /\ \A d \in Cols : (d > cell_pos.col /\ Kind(d) # "absent") => c <= d
NoMoreCells == \A d \in Cols : d > cell_pos.col => Kind(d) = "absent"

-----------------------------------------------------------------------------
Worksheets == UNION { [rows -> RowShapes] : rows \in SUBSET (1 .. MaxRow) }
Ranges == { r \in [beg : [row : 1 .. MaxRow + 1, col : Cols],
                   end : [row : 1 .. MaxRow + 1, col : 2 .. MaxCol + 1]] :
              r.beg.row <= r.end.row /\ r.beg.col < r.end.col }
Options == [has_explicit_range : BOOLEAN, stop_at_empty : BOOLEAN, ignore_errors : BOOLEAN]

(* A range that was not given explicitly is open at the end and begins at    *)
(* the first row with data, below the header, or at row 1.                   *)
SniffedRange ==
    /\ range.end.row = MaxRow + 1
    /\ range.beg.row = 1 \/ range.beg.row \in Rows \/ range.beg.row - 1 \in Rows

Init ==
    /\ sheet \in Worksheets
    /\ range \in Ranges
    /\ opts \in Options
    /\ opts.has_explicit_range \/ SniffedRange
    /\ blocks_left \in 1 .. MaxBlocks
    /\ status = "OK" /\ xml = "OK"
    /\ state = "SHEETDATA"
    /\ cell_pos = [row |-> 0, col |-> 0]
    /\ chunk = [s \in Slots |-> StaleRow]
    /\ size = 0
    /\ sheet_row_number = [s \in Slots |-> 0]
    /\ out_index = 0
    /\ last_col = range.beg.col - 1
    /\ last_row = range.beg.row - 1
    /\ curr_row = range.beg.row
    /\ is_row_empty = FALSE
    /\ pc = "idle"
    /\ output = << >>
    /\ error = NoRef

-----------------------------------------------------------------------------
(*                     Execute: the loop around the parser                   *)

IsDone == blocks_left = 0

(* DuckDB asks for the next chunk; chunk.Reset() forgets every value.        *)
Call ==
    /\ pc = "idle"
    /\ chunk' = [s \in Slots |-> StaleRow]
    /\ size' = 0
    /\ pc' = "loop"
    /\ UNCHANGED <<fixedVars, blocks_left, status, xml, state, cell_pos, sheet_row_number,
                   out_index, last_col, last_row, curr_row, is_row_empty, output, error>>

FoundSkippedRowOffByOne == last_row < curr_row
FoundSkippedRow == last_row + 1 < curr_row

(* n NULL rows written from out_index on, mapped to the sheet rows first,    *)
(* first + 1, ...                                                            *)
PutNullRowsFromTop(n) ==
    chunk' = [s \in Slots |-> IF s < n THEN NullRow ELSE chunk[s]]
PutNullRows(n) ==
    chunk' = [s \in Slots |-> IF out_index <= s /\ s < out_index + n THEN NullRow ELSE chunk[s]]
MapRows(n, first) ==
    sheet_row_number' = [s \in Slots |-> IF out_index <= s /\ s < out_index + n
                                         THEN first + (s - out_index)
                                         ELSE sheet_row_number[s]]

(* How many of the missing rows fit in the chunk.                            *)
SkippedRowsAndOneMore == Lesser(curr_row - last_row, VectorSize - out_index)
SkippedRows == Lesser(curr_row - 1 - last_row, VectorSize - out_index)

SkipRows ==
    /\ pc = "loop" /\ size # VectorSize
    /\ status = "SUSPENDED" /\ FoundSkippedRow /\ ~opts.stop_at_empty
    /\ PutNullRows(SkippedRows)
    /\ MapRows(SkippedRows, last_row + 1)
    /\ last_row' = last_row + SkippedRows
    /\ size' = out_index + SkippedRows
    /\ out_index' = IF out_index + SkippedRows = VectorSize THEN 0 ELSE out_index + SkippedRows
    /\ UNCHANGED <<fixedVars, blocks_left, status, xml, state, cell_pos, last_col, curr_row,
                   is_row_empty, pc, output, error>>

(* A missing row is an empty row: stop_at_empty ends the scan here.          *)
StopAtSkippedRow ==
    /\ pc = "loop" /\ size # VectorSize
    /\ status = "SUSPENDED" /\ FoundSkippedRow /\ opts.stop_at_empty
    /\ status' = "ABORTED"
    /\ pc' = "fill"
    /\ UNCHANGED <<fixedVars, blocks_left, parserVars, output, error>>

Resume ==
    /\ pc = "loop" /\ size # VectorSize
    /\ status = "SUSPENDED" /\ ~FoundSkippedRow
    /\ xml' = "OK"
    /\ pc' = "parse"
    /\ UNCHANGED <<fixedVars, blocks_left, status, state, cell_pos, chunk, size, sheet_row_number,
                   out_index, last_col, last_row, curr_row, is_row_empty, output, error>>

ReadBlock ==
    /\ pc = "loop" /\ size # VectorSize
    /\ status = "OK" /\ ~IsDone
    /\ blocks_left' = blocks_left - 1
    /\ pc' = "parse"
    /\ UNCHANGED <<fixedVars, status, parserVars, output, error>>

LeaveLoop ==
    /\ pc = "loop"
    /\ size = VectorSize \/ (status # "SUSPENDED" /\ (IsDone \/ status = "ABORTED"))
    /\ pc' = "fill"
    /\ UNCHANGED <<fixedVars, blocks_left, status, parserVars, output, error>>

-----------------------------------------------------------------------------
(*              expat and the callbacks of SheetParser                       *)

(* expat looks at the parser's status between tokens.  <row r="5"/> is one   *)
(* token with two callbacks: the end element follows the start element even  *)
(* when the start element asked the parser to stop.                          *)
InsideToken == state = "ROW" /\ sheet[cell_pos.row].selfclosing
MayCallBack == pc = "parse" /\ (xml = "OK" \/ InsideToken)

OnBeginRowKeepsParsing(r) ==
    IF ContainsRow(r)
    THEN last_col' = range.beg.col - 1 /\ is_row_empty' = TRUE /\ curr_row' = r /\ xml' = xml
    ELSE UNCHANGED <<last_col, is_row_empty, curr_row, xml>>
OnBeginRow(r) ==
    IF ContainsRow(r)
    THEN /\ last_col' = range.beg.col - 1
         /\ is_row_empty' = TRUE
         /\ curr_row' = r
         /\ xml' = IF last_row + 1 < r THEN "SUSPENDED" ELSE xml
    ELSE UNCHANGED <<last_col, is_row_empty, curr_row, xml>>

BeginRow ==
    /\ MayCallBack
    /\ state = "SHEETDATA"
    /\ \E r \in Rows :
         /\ IsNextRow(r)
         /\ cell_pos' = [row |-> r, col |-> 0]
         /\ OnBeginRow(r)
    /\ state' = "ROW"
    /\ UNCHANGED <<fixedVars, blocks_left, status, chunk, size, sheet_row_number, out_index,
                   last_row, pc, output, error>>

(* Columns jumped over become NULL, then the cell itself is written.         *)
OnCell(c) ==
    IF ContainsPos(cell_pos.row, c)
    THEN /\ chunk' = [chunk EXCEPT ![out_index] =
                       [d \in RangeCols |-> IF last_col < d /\ d < c THEN Null
                                       ELSE IF d = c THEN CellValue(Kind(c), cell_pos.row, c)
                                       ELSE chunk[out_index][d]]]
         /\ is_row_empty' = (is_row_empty /\ ~HasData(Kind(c)))
         /\ last_col' = c
    ELSE UNCHANGED <<chunk, is_row_empty, last_col>>

Cell ==
    /\ MayCallBack
    /\ state = "ROW"
    /\ \E c \in Cols :
         /\ IsNextCell(c)
         /\ Kind(c) # "badref"
         /\ cell_pos' = [row |-> cell_pos.row, col |-> c]
         /\ OnCell(c)
    /\ UNCHANGED <<fixedVars, blocks_left, status, xml, state, size, sheet_row_number, out_index,
                   last_row, curr_row, pc, output, error>>

(* "Cell reference does not match row reference": the exception ends the     *)
(* query before the chunk is handed over.                                    *)
CellThrows ==
    /\ MayCallBack
    /\ state = "ROW"
    /\ \E c \in Cols : IsNextCell(c) /\ Kind(c) = "badref"
    /\ pc' = "failed"
    /\ UNCHANGED <<fixedVars, blocks_left, status, parserVars, output, error>>

OnEndRow(r) ==
    IF ~ContainsRow(r)
    THEN UNCHANGED <<last_row, xml, chunk, sheet_row_number, size, out_index>>
    ELSE /\ last_row' = r
         /\ IF opts.stop_at_empty /\ is_row_empty
            THEN /\ xml' = "ABORTED"
                 /\ UNCHANGED <<chunk, sheet_row_number, size, out_index>>
            ELSE /\ chunk' = [chunk EXCEPT ![out_index] =
                               [d \in RangeCols |-> IF last_col < d THEN Null
                                                    ELSE chunk[out_index][d]]]
                 /\ sheet_row_number' = [sheet_row_number EXCEPT ![out_index] = r]
                 /\ size' = out_index + 1
                 /\ IF out_index + 1 = VectorSize
                    THEN out_index' = 0 /\ xml' = "SUSPENDED"
                    ELSE out_index' = out_index + 1 /\ xml' = xml

EndRow ==
    /\ MayCallBack
    /\ state = "ROW"
    /\ NoMoreCells
    /\ OnEndRow(cell_pos.row)
    /\ state' = "SHEETDATA"
    /\ UNCHANGED <<fixedVars, blocks_left, status, cell_pos, last_col, curr_row, is_row_empty,
                   pc, output, error>>

EndSheetData ==
    /\ MayCallBack
    /\ state = "SHEETDATA"
    /\ \A r \in Rows : r <= cell_pos.row
    /\ xml' = "ABORTED"
    /\ UNCHANGED <<fixedVars, blocks_left, status, state, cell_pos, chunk, size, sheet_row_number,
                   out_index, last_col, last_row, curr_row, is_row_empty, pc, output, error>>

(* The parser returns because a callback stopped it, or because the block is *)
(* exhausted; the last block of the entry holds the rest of the document.    *)
ParserReturns ==
    /\ pc = "parse" /\ ~InsideToken
    /\ xml # "OK" \/ ~IsDone
    /\ status' = xml
    /\ pc' = "loop"
    /\ UNCHANGED <<fixedVars, blocks_left, parserVars, output, error>>

-----------------------------------------------------------------------------
(*                 Execute: padding, casting, returning                      *)

(* With an explicit range the chunk is filled up to the end of the range.    *)
(* The mapping is written before last_row moves, as the code does.           *)
RowsToFillOneLess  == Lesser(range.end.row - 2 - last_row, VectorSize - out_index)
RowsToFill == Lesser(range.end.row - 1 - last_row, VectorSize - out_index)

FillRows ==
    /\ pc = "fill"
    /\ pc' = "cast"
    /\ IF opts.has_explicit_range /\ ~opts.stop_at_empty /\ size # VectorSize
       THEN /\ PutNullRows(RowsToFill)
            /\ MapRows(RowsToFill, last_row)
            /\ last_row' = last_row + RowsToFill
            /\ size' = size + RowsToFill
            /\ out_index' = 0
       ELSE UNCHANGED <<chunk, sheet_row_number, last_row, size, out_index>>
    /\ UNCHANGED <<fixedVars, blocks_left, status, xml, state, cell_pos, last_col, curr_row,
                   is_row_empty, output, error>>

(* TryCastFromString: what a cell of column c becomes in the output.         *)
CastValue(v, c) == IF c \in TypedCols /\ v.kind \in {"bad", "empty_text"} THEN Null ELSE v
CastFails(s, c) == s < size /\ c \in TypedCols /\ chunk[s][c].kind = "bad"

(* The worksheet cell that slot s of the chunk was read from.                *)
GetCellNameBySlot(s, c) == [row |-> range.beg.row + s, col |-> c]
GetCellName(s, c) == [row |-> sheet_row_number[s], col |-> c]

(* Columns are cast one after the other, rows from the top; the first cell   *)
(* that fails ends the query and is named in its message.                         *)
CastThrows ==
    /\ pc = "cast" /\ ~opts.ignore_errors
    /\ \E s \in Slots, c \in RangeCols :
         /\ CastFails(s, c)
         /\ \A t \in Slots, d \in RangeCols : CastFails(t, d) => c < d \/ (c = d /\ s <= t)
         /\ error' = GetCellName(s, c)
    /\ pc' = "failed"
    /\ UNCHANGED <<fixedVars, blocks_left, status, parserVars, output>>

(* DuckDB stops calling a table function that returns an empty chunk.        *)
ReturnChunk ==
    /\ pc = "cast"
    /\ opts.ignore_errors \/ \A s \in Slots, c \in RangeCols : ~CastFails(s, c)
    /\ output' = output \o [i \in 1 .. size |-> [c \in RangeCols |-> CastValue(chunk[i - 1][c], c)]]
    /\ pc' = IF size = 0 THEN "done" ELSE "idle"
    /\ UNCHANGED <<fixedVars, blocks_left, status, parserVars, error>>

Terminated == pc \in {"done", "failed"} /\ UNCHANGED vars

-----------------------------------------------------------------------------
Loop     == SkipRows \/ StopAtSkippedRow \/ Resume \/ ReadBlock \/ LeaveLoop
Callback == BeginRow \/ Cell \/ CellThrows \/ EndRow \/ EndSheetData
Next == \/ Call \/ Loop
        \/ Callback \/ ParserReturns
        \/ FillRows \/ CastThrows \/ ReturnChunk
        \/ Terminated

Spec == Init /\ [][Next]_vars

(* One thread runs the scan and DuckDB keeps asking for chunks.              *)
FairSpec == Spec /\ WF_vars(Next)

=============================================================================
