----------------------------- MODULE SheetSniff -----------------------------
(***************************************************************************)
(* What Bind finds out about a worksheet before it is scanned: RangeSniffer*)
(* reads it up to the first row with data and takes its columns from that  *)
(* row (unless the query gives a range), HeaderSniffer reads it again up to*)
(* a header and one row below it, and SniffHeader makes names and types of *)
(* the cells it collected.  The range that is left is the one SheetScan    *)
(* starts from.                                                            *)
(***************************************************************************)
EXTENDS Integers, Sequences

CONSTANTS
    MaxRow,      (* bound: rows of a worksheet are 1 .. MaxRow               *)
    MaxCol,      (* XLSX_MAX_CELL_COLS                                       *)
    RowShapes,   (* the <row> elements a worksheet is built from             *)
    Requests     (* the options a query may give                             *)

Cols == 1 .. MaxCol

(* A <c> element without data, or with data of a type: a string, a formula's *)
(* string, anything that is stored as a number, or a type the code does not  *)
(* know.  "padding" is a cell HeaderSniffer adds for a missing element.      *)
CellKinds == {"absent", "blank", "number", "text", "formula", "unknown"}
HasData(kind) == kind \notin {"absent", "blank", "padding"}

Ranges == [beg : [row : 1 .. MaxRow + 1, col : Cols], end : [row : 1 .. MaxRow + 1, col : 1 .. MaxCol + 1]]
IsRange(r) == r.beg.row < r.end.row /\ r.beg.col < r.end.col
Width(r) == r.end.col - r.beg.col
InRows(r, row) == r.beg.row <= row /\ row < r.end.row
InCols(r, col) == r.beg.col <= col /\ col < r.end.col

(* MaxRow + 1 is also the largest idx_t, and the end is exclusive.           *)
WholeSheet == [beg |-> [row |-> 1, col |-> 1], end |-> [row |-> MaxRow + 1, col |-> MaxCol]]

Options == [has_explicit_range : BOOLEAN, range : Ranges, header_mode : {"NEVER", "MAYBE", "FORCE"},
            default_cell_type : {"NUMBER", "INLINE_STRING"}, all_varchar : BOOLEAN]

ASSUME SniffAssumption ==
    /\ MaxRow \in Nat \ {0} /\ MaxCol \in Nat \ {0, 1}
    /\ RowShapes \subseteq [Cols -> CellKinds]
    /\ Requests \subseteq Options
    /\ \A opts \in Requests : IF opts.has_explicit_range THEN IsRange(opts.range) ELSE opts.range = WholeSheet

VARIABLES
    sheet, opts,                     (* the worksheet and XLSXReadOptions; never change   *)
    phase,                           (* who reads: "range", "header"; then "resolve",     *)
                                     (* "bound" or "failed"                               *)
    state, cell_pos,                 (* SheetParserBase, one per sniffer                  *)
    found, beg_col, end_col,         (* RangeSniffer                                      *)
    range, first_row, last_col,      (* HeaderSniffer                                     *)
    header_cells, column_cells,
    names, types                     (* column_names; return_types and source_types       *)

parser == <<state, cell_pos>>
rangeSniffer == <<found, beg_col, end_col>>
headerSniffer == <<range, first_row, last_col, header_cells, column_cells>>
vars == <<sheet, opts, phase, parser, rangeSniffer, headerSniffer, names, types>>

-----------------------------------------------------------------------------
Rows == DOMAIN sheet
Kind(c) == sheet[cell_pos.row][c]
IsNextRow(r) == r \in Rows /\ r > cell_pos.row /\ \A q \in Rows : q > cell_pos.row => r <= q
IsNextCell(c) == /\ c \in Cols /\ c > cell_pos.col /\ Kind(c) # "absent"
                 /\ \A d \in Cols : (d > cell_pos.col /\ Kind(d) # "absent") => c <= d
NoMoreCells == \A d \in Cols : d > cell_pos.col => Kind(d) = "absent"

Init ==
    /\ sheet \in UNION { [rows -> RowShapes] : rows \in SUBSET (1 .. MaxRow) }
    /\ opts \in Requests
    /\ phase = IF opts.has_explicit_range THEN "header" ELSE "range"
    /\ state = "SHEETDATA" /\ cell_pos = [row |-> 0, col |-> 0]
    /\ found = "EMPTY" /\ beg_col = 0 /\ end_col = 0
    /\ range = opts.range /\ first_row = TRUE /\ last_col = 0
    /\ header_cells = << >> /\ column_cells = << >>
    /\ names = << >> /\ types = << >>

(* A sniffer stops the parser, or the worksheet ends: the entry is closed    *)
(* and the next reader starts at its beginning.                              *)
StopAndGoTo(next) ==
    /\ phase' = next
    /\ state' = "SHEETDATA" /\ cell_pos' = [row |-> 0, col |-> 0]
ReadOn == state' = "SHEETDATA" /\ UNCHANGED <<phase, cell_pos>>

-----------------------------------------------------------------------------
(* RangeSniffer                                                              *)

OnRangeCell(c) ==
    CASE found = "EMPTY" /\ HasData(Kind(c)) -> found' = "FOUND" /\ beg_col' = c /\ end_col' = c
      [] found = "FOUND" /\ HasData(Kind(c)) -> end_col' = c /\ UNCHANGED <<found, beg_col>>
      [] found = "FOUND" /\ ~HasData(Kind(c)) -> found' = "ENDED" /\ UNCHANGED <<beg_col, end_col>>
      [] OTHER -> UNCHANGED rangeSniffer

GetRangeOfRow(row) == [beg |-> [row |-> row, col |-> beg_col], end |-> [row |-> row + 1, col |-> end_col + 1]]
GetRange(row) == [beg |-> [row |-> row, col |-> beg_col], end |-> [row |-> MaxRow + 1, col |-> end_col + 1]]

OnRangeEndRow ==
    IF found # "EMPTY"
    THEN range' = GetRange(cell_pos.row) /\ StopAndGoTo("header") /\ UNCHANGED rangeSniffer
    ELSE beg_col' = 0 /\ end_col' = 0 /\ ReadOn /\ UNCHANGED <<found, range>>

-----------------------------------------------------------------------------
(* HeaderSniffer                                                             *)

CellAt(kind, row, col) == [kind |-> kind, row |-> row, col |-> col]
Padding(from, to, row) == [i \in 1 .. (IF from < to THEN to - from ELSE 0) |-> CellAt("padding", row, from + i - 1)]

OnHeaderBeginRow(r) ==
    IF InRows(range, r)
    THEN column_cells' = << >> /\ last_col' = range.beg.col - 1
    ELSE UNCHANGED <<column_cells, last_col>>

(* The row is not looked at here: cells above the range are dropped when     *)
(* their row ends.                                                           *)
OnHeaderCell(c) ==
    IF InCols(range, c)
    THEN /\ column_cells' = column_cells \o Padding(last_col + 1, c, cell_pos.row)
                              \o <<CellAt(Kind(c), cell_pos.row, c)>>
         /\ last_col' = c
    ELSE UNCHANGED <<column_cells, last_col>>

(* The cells of the row that ends, with those missing at the end of it.       *)
CompletedUnpadded == column_cells
Completed == column_cells \o Padding(last_col + 1, range.end.col, cell_pos.row)

IsHeader(cells) ==
    \/ opts.header_mode = "FORCE"
    \/ opts.header_mode = "MAYBE" /\ \A i \in DOMAIN cells : cells[i].kind = "text"

SkipRowAndKeepCells ==
    /\ ~InRows(range, cell_pos.row)
    /\ last_col' = range.beg.col - 1
    /\ UNCHANGED <<column_cells, range, first_row, header_cells>>
    /\ ReadOn
SkipRow ==
    /\ ~InRows(range, cell_pos.row)
    /\ column_cells' = << >> /\ last_col' = range.beg.col - 1
    /\ UNCHANGED <<range, first_row, header_cells>>
    /\ ReadOn

(* The range moves down to the row below the header, wherever the header is. *)
RangeBelowByOne == [range EXCEPT !.beg.row = @ + 1]
RangeBelow == [range EXCEPT !.beg.row = cell_pos.row + 1]
TakeHeader ==
    /\ InRows(range, cell_pos.row) /\ first_row /\ IsHeader(Completed)
    /\ header_cells' = Completed /\ column_cells' = << >>
    /\ last_col' = range.beg.col - 1
    /\ first_row' = FALSE
    /\ range' = RangeBelow
    /\ ReadOn

(* The next row element below the header, or the first one when it is none.  *)
TakeDataRow ==
    /\ InRows(range, cell_pos.row) /\ (first_row => ~IsHeader(Completed))
    /\ column_cells' = Completed
    /\ header_cells' = IF first_row THEN Completed ELSE header_cells
    /\ StopAndGoTo("resolve")
    /\ UNCHANGED <<range, first_row, last_col>>

-----------------------------------------------------------------------------
(* The callbacks of either sniffer                                           *)

Sniffing == phase \in {"range", "header"}

BeginRow ==
    /\ Sniffing /\ state = "SHEETDATA"
    /\ \E r \in Rows :
         /\ IsNextRow(r)
         /\ cell_pos' = [row |-> r, col |-> 0]
         /\ IF phase = "header" THEN OnHeaderBeginRow(r) ELSE UNCHANGED <<column_cells, last_col>>
    /\ state' = "ROW"
    /\ UNCHANGED <<sheet, opts, phase, rangeSniffer, range, first_row, header_cells, names, types>>

Cell ==
    /\ Sniffing /\ state = "ROW"
    /\ \E c \in Cols :
         /\ IsNextCell(c)
         /\ cell_pos' = [cell_pos EXCEPT !.col = c]
         /\ IF phase = "range"
            THEN OnRangeCell(c) /\ UNCHANGED <<column_cells, last_col>>
            ELSE OnHeaderCell(c) /\ UNCHANGED rangeSniffer
    /\ UNCHANGED <<sheet, opts, phase, state, range, first_row, header_cells, names, types>>

EndRow ==
    /\ Sniffing /\ state = "ROW" /\ NoMoreCells
    /\ \/ phase = "range" /\ OnRangeEndRow /\ UNCHANGED <<first_row, last_col, header_cells, column_cells>>
       \/ phase = "header" /\ (SkipRow \/ TakeHeader \/ TakeDataRow) /\ UNCHANGED rangeSniffer
    /\ UNCHANGED <<sheet, opts, names, types>>

(* A sheet without data keeps the whole sheet for its range.                 *)
EndSheetData ==
    /\ Sniffing /\ state = "SHEETDATA" /\ \A r \in Rows : r <= cell_pos.row
    /\ StopAndGoTo(IF phase = "range" THEN "header" ELSE "resolve")
    /\ UNCHANGED <<sheet, opts, rangeSniffer, headerSniffer, names, types>>

-----------------------------------------------------------------------------
(* SniffHeader                                                               *)

CellType(kind) ==
    CASE kind \in {"number", "blank"} -> "NUMBER"
      [] kind = "text" -> "INLINE_STRING"
      [] kind = "formula" -> "FORMULA_STRING"
      [] kind = "unknown" -> "UNKNOWN"
      [] kind = "padding" -> opts.default_cell_type

(* XLSXCell::GetDuckDBType, without the styles: DOUBLE stands for what the   *)
(* style makes of a number.                                                  *)
DuckDBType(type) == IF ~opts.all_varchar /\ type = "NUMBER" THEN "DOUBLE" ELSE "VARCHAR"
TypeOf(cell) == [duckdb |-> DuckDBType(CellType(cell.kind)), source |-> CellType(cell.kind)]
HasNoType(cell) == ~opts.all_varchar /\ CellType(cell.kind) = "UNKNOWN"

(* A name is what a cell of the header says, or made up from a position:     *)
(* "C" in a range that was given, else "C2".                                 *)
NameOf(cell) ==
    [from |-> IF ~first_row THEN "cell" ELSE IF opts.has_explicit_range THEN "column" ELSE "position",
     row |-> cell.row, col |-> cell.col]

HasNoRows == column_cells = << >> /\ header_cells = << >> /\ ~opts.has_explicit_range

HeaderCells ==
    IF header_cells = << >>
    THEN Padding(range.beg.col, range.end.col, range.beg.row)
    ELSE header_cells
NamesOfHeader ==
    IF header_cells = << >>
    THEN [i \in DOMAIN HeaderCells |-> [NameOf(HeaderCells[i]) EXCEPT !.from = "position"]]
    ELSE [i \in DOMAIN HeaderCells |-> NameOf(HeaderCells[i])]

(* Without a row of data every column gets the default type.                 *)
DataCellsOrHeader == IF column_cells = << >> THEN HeaderCells ELSE column_cells
DataCells ==
    IF column_cells = << >>
    THEN [i \in DOMAIN HeaderCells |-> [HeaderCells[i] EXCEPT !.kind = "padding"]]
    ELSE column_cells

Resolve ==
    /\ phase = "resolve" /\ ~HasNoRows
    /\ \A i \in DOMAIN DataCells : ~HasNoType(DataCells[i])
    /\ names' = NamesOfHeader
    /\ types' = [i \in DOMAIN DataCells |-> TypeOf(DataCells[i])]
    /\ phase' = "bound"
    /\ UNCHANGED <<sheet, opts, parser, rangeSniffer, headerSniffer>>

(* "No rows found in xlsx file", "Unknown cell type in xlsx file".           *)
Fail ==
    /\ phase = "resolve"
    /\ HasNoRows \/ \E i \in DOMAIN DataCells : HasNoType(DataCells[i])
    /\ phase' = "failed"
    /\ UNCHANGED <<sheet, opts, parser, rangeSniffer, headerSniffer, names, types>>

Terminated == phase \in {"bound", "failed"} /\ UNCHANGED vars

Next == BeginRow \/ Cell \/ EndRow \/ EndSheetData \/ Resolve \/ Fail \/ Terminated

Spec == Init /\ [][Next]_vars
=============================================================================
