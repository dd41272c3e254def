-------------------------- MODULE SniffProperties ---------------------------
(* What Bind promises the query and the scan about a worksheet.              *)
EXTENDS SheetSniff

Bound == phase = "bound"
HasHeader == ~first_row

Requested == IF opts.has_explicit_range THEN opts.range.beg.row
             ELSE IF \E r \in Rows, c \in Cols : HasData(sheet[r][c])
             THEN CHOOSE r \in Rows : /\ \E c \in Cols : HasData(sheet[r][c])
                                      /\ \A q \in Rows : q < r => \A c \in Cols : ~HasData(sheet[q][c])
             ELSE 1
FirstRun(r) ==
    LET filled == {c \in Cols : HasData(sheet[r][c])}
        first  == CHOOSE c \in filled : \A d \in filled : c <= d
    IN  {c \in filled : \A d \in first .. c : d \in filled}
Sniffed == Bound /\ ~opts.has_explicit_range /\ \E r \in Rows, c \in Cols : HasData(sheet[r][c])

(* The columns the scan reads, the names and the types of the query are the  *)
(* same columns: Execute writes column i of the range into a vector of type  *)
(* i, so one cell too many or too few in either row shifts all others.  The  *)
(* columns of a sniffed range are those of the first row that has data: its  *)
(* first run of cells is inside, and both edges hold data.                   *)
ColumnsAgree ==
    Bound => /\ Len(names) = Width(range) /\ Len(types) = Width(range)
             /\ \A i \in DOMAIN names : names[i].col = range.beg.col + i - 1
             /\ Sniffed => /\ \A c \in FirstRun(Requested) : InCols(range, c)
                           /\ HasData(sheet[Requested][range.beg.col])
                           /\ HasData(sheet[Requested][range.end.col - 1])

(* With a header the range begins right below it, the header is the first    *)
(* row element of the range that was asked for, and the names are its own:   *)
(* the scan neither returns the header as data nor skips a row below it.     *)
HeaderIsNotData ==
    Bound => IF HasHeader
             THEN LET header == range.beg.row - 1
                  IN  /\ header \in Rows /\ \A q \in Rows : q < header => q < Requested
                      /\ \A i \in DOMAIN names : names[i].from = "cell" /\ names[i].row = header
             ELSE range.beg.row = Requested

(* The types are those of the first row element the scan will read, column   *)
(* by column, and the default where the row or the cell is missing.          *)
KindRead(r, c) == IF sheet[r][c] = "absent" THEN "padding" ELSE sheet[r][c]
TypesDescribeData ==
    Bound => \A i \in DOMAIN types :
       LET rows == {r \in Rows : InRows(range, r)}
           col  == range.beg.col + i - 1
       IN  IF rows = {} THEN types[i].source = opts.default_cell_type
           ELSE \E r \in rows : /\ \A q \in rows : r <= q
                                /\ types[i].source = CellType(KindRead(r, col))

(* Where SheetScan begins: a sniffed range is open at the end, and its first *)
(* row is the first with data, the row below it, or row 1.                   *)
ScanCanStart ==
    Bound => /\ range.beg.row <= range.end.row /\ range.beg.col < range.end.col
             /\ ~opts.has_explicit_range =>
                  /\ range.end.row = MaxRow + 1
                  /\ range.beg.row = 1 \/ range.beg.row \in Rows \/ range.beg.row - 1 \in Rows

-----------------------------------------------------------------------------
(* The invariant that ties the two readings of the worksheet to the range.   *)

CellRecords == [kind : CellKinds \cup {"padding"}, row : 1 .. MaxRow + 1, col : Cols]
TypeOK ==
    /\ sheet \in UNION { [rows -> RowShapes] : rows \in SUBSET (1 .. MaxRow) }
    /\ opts \in Requests
    /\ phase \in {"range", "header", "resolve", "bound", "failed"}
    /\ state \in {"SHEETDATA", "ROW"}
    /\ cell_pos \in [row : 0 .. MaxRow, col : 0 .. MaxCol]
    /\ found \in {"EMPTY", "FOUND", "ENDED"} /\ beg_col \in 0 .. MaxCol /\ end_col \in 0 .. MaxCol
    /\ range \in Ranges /\ range.beg.row <= range.end.row /\ range.beg.col < range.end.col
    /\ first_row \in BOOLEAN /\ last_col \in 0 .. MaxCol
    /\ column_cells \in Seq(CellRecords) /\ header_cells \in Seq(CellRecords)
    /\ state = "ROW" => cell_pos.row \in Rows

NoDataIn(row) == \A c \in Cols : ~HasData(sheet[row][c])
NoDataAtAll == \A row \in Rows : NoDataIn(row)

(* The <row> elements a sniffer has left behind.                             *)
Finished(row) == row < cell_pos.row \/ (row = cell_pos.row /\ state = "SHEETDATA")

(* RangeSniffer stops at the first row with data; beg_col is its first cell  *)
(* with data, end_col the last one before a cell element without data.       *)
RangeSniffed ==
    phase = "range" =>
      /\ ~opts.has_explicit_range /\ first_row
      /\ range = WholeSheet /\ header_cells = << >> /\ column_cells = << >>
      /\ \A row \in Rows : Finished(row) => NoDataIn(row)
      /\ (found = "EMPTY" /\ state = "ROW") =>
           \A c \in Cols : c <= cell_pos.col => ~HasData(Kind(c))
      /\ found # "EMPTY" =>
           /\ state = "ROW"
           /\ beg_col \in Cols /\ end_col \in Cols /\ beg_col <= end_col /\ end_col <= cell_pos.col
           /\ HasData(Kind(beg_col)) /\ HasData(Kind(end_col))
           /\ \A c \in Cols : c < beg_col => ~HasData(Kind(c))
      /\ found = "FOUND" => end_col = cell_pos.col
      /\ found = "ENDED" => end_col < cell_pos.col /\ ~HasData(Kind(end_col + 1))

(* The range HeaderSniffer was given, up to the row it has moved down to.    *)
RangeStarts ==
    phase # "range" =>
      /\ first_row => range.beg.row = Requested
      /\ opts.has_explicit_range =>
           range.end = opts.range.end /\ range.beg.col = opts.range.beg.col
      /\ ~opts.has_explicit_range => range.end.row = MaxRow + 1
      /\ (~opts.has_explicit_range /\ ~NoDataAtAll) =>
           /\ \A c \in Cols : c < range.beg.col => ~HasData(sheet[Requested][c])
           /\ HasData(sheet[Requested][range.beg.col])
           /\ HasData(sheet[Requested][range.end.col - 1])
           /\ range.end.col \in Cols => ~HasData(sheet[Requested][range.end.col])

(* The cells of a row from the first column of the range to the last one     *)
(* given, with a padding cell for every element that is missing.             *)
RowCells(row, last) ==
    [i \in 1 .. last - range.beg.col + 1 |->
       CellAt(KindRead(row, range.beg.col + i - 1), row, range.beg.col + i - 1)]
WholeRow(row) == RowCells(row, range.end.col - 1)

(* A row becomes the header only if it is the first of those asked for.      *)
HeaderTaken ==
    ~first_row => LET header == range.beg.row - 1
                  IN  /\ header \in Rows /\ Requested <= header
                      /\ \A q \in Rows : q < header => q < Requested
                      /\ header_cells = WholeRow(header)

(* HeaderSniffer has dropped the rows outside of the range, and what it has  *)
(* of a row inside is the row up to the last element read.                   *)
HeaderSniffed ==
    phase = "header" =>
      /\ first_row => header_cells = << >>
      /\ \A row \in Rows : Finished(row) => ~InRows(range, row)
      /\ state = "SHEETDATA" => column_cells = << >>
      /\ (state = "ROW" /\ InRows(range, cell_pos.row)) =>
           /\ range.beg.col - 1 <= last_col /\ last_col < range.end.col
           /\ last_col <= cell_pos.col \/ last_col = range.beg.col - 1
           /\ column_cells = RowCells(cell_pos.row, last_col)
           /\ \A c \in Cols : (last_col < c /\ c <= cell_pos.col /\ InCols(range, c)) => Kind(c) = "absent"

(* What is left for SniffHeader: the first row of the range, if there is one.*)
IsFirstInRange(row) == /\ row \in Rows /\ InRows(range, row)
                       /\ \A q \in Rows : InRows(range, q) => row <= q
ReadyToResolve ==
    phase \in {"resolve", "bound"} =>
      \/ /\ column_cells = << >>
         /\ \A row \in Rows : ~InRows(range, row)
         /\ first_row => header_cells = << >>
      \/ \E row \in Rows : /\ IsFirstInRange(row)
                           /\ column_cells = WholeRow(row)
                           /\ first_row => header_cells = WholeRow(row)

Resolved ==
    Bound => names = NamesOfHeader /\ types = [i \in DOMAIN DataCells |-> TypeOf(DataCells[i])]

SniffInv == /\ TypeOK /\ RangeSniffed /\ RangeStarts /\ HeaderTaken /\ HeaderSniffed
            /\ ReadyToResolve /\ Resolved
=============================================================================
