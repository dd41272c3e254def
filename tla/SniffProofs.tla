----------------------------- MODULE SniffProofs -----------------------------
(***************************************************************************)
(* What Bind finds out about a worksheet is right for every worksheet,     *)
(* every request and every mode: names, types and range have the same      *)
(* columns, the header is not read again as data, and the types are those  *)
(* of the first row the scan will read.                                    *)
(***************************************************************************)
EXTENDS SniffProperties, OperatorProofs, TLAPS

LEMMA SniffFacts ==
    ASSUME TypeOK
    PROVE  /\ MaxRow \in Nat \ {0} /\ MaxCol \in Nat \ {0, 1}
           /\ Rows \subseteq 1 .. MaxRow
           /\ \A r \in Rows : sheet[r] \in [Cols -> CellKinds]
           /\ range.beg.row \in 1 .. MaxRow + 1 /\ range.end.row \in 1 .. MaxRow + 1
           /\ range.beg.row <= range.end.row
           /\ range.beg.col \in 1 .. MaxCol /\ range.end.col \in 1 .. MaxCol + 1
           /\ range.beg.col < range.end.col
           /\ opts \in Options
           /\ opts.has_explicit_range => opts.range \in Ranges /\ IsRange(opts.range)
           /\ ~opts.has_explicit_range => opts.range = WholeSheet
<1>1. /\ MaxRow \in Nat \ {0} /\ MaxCol \in Nat \ {0, 1}
      /\ RowShapes \subseteq [Cols -> CellKinds] /\ Requests \subseteq Options
      /\ \A o \in Requests : IF o.has_explicit_range THEN IsRange(o.range) ELSE o.range = WholeSheet
  BY SniffAssumption
<1>2. PICK rows \in SUBSET (1 .. MaxRow) : sheet \in [rows -> RowShapes]
  BY DEF TypeOK
<1>3. Rows = rows /\ \A r \in Rows : sheet[r] \in [Cols -> CellKinds]
  BY <1>1, <1>2 DEF Rows
<1>4. opts \in Requests /\ opts \in Options
  BY <1>1 DEF TypeOK
<1>5. opts.range \in Ranges
  BY <1>4 DEF Options
<1>6. /\ range.beg.row \in 1 .. MaxRow + 1 /\ range.end.row \in 1 .. MaxRow + 1
      /\ range.beg.col \in 1 .. MaxCol /\ range.end.col \in 1 .. MaxCol + 1
      /\ range.beg.row <= range.end.row /\ range.beg.col < range.end.col
  BY DEF TypeOK, Ranges, Cols
<1> QED
  BY <1>1, <1>2, <1>3, <1>4, <1>5, <1>6

(* The worksheet and the options are the same for both sniffers.             *)
LEMMA FixedSniff ==
    ASSUME UNCHANGED <<sheet, opts>>
    PROVE  /\ sheet' = sheet /\ opts' = opts /\ Rows' = Rows
           /\ Requested' = Requested
           /\ \A r : NoDataIn(r)' <=> NoDataIn(r)
           /\ NoDataAtAll' <=> NoDataAtAll
           /\ \A r, c : KindRead(r, c)' = KindRead(r, c)
<1>1. sheet' = sheet /\ opts' = opts /\ Rows' = Rows
  BY DEF Rows
<1>2. Requested' = Requested
  BY <1>1 DEF Requested
<1>3. \A r : NoDataIn(r)' <=> NoDataIn(r)
  BY <1>1 DEF NoDataIn
<1>4. NoDataAtAll' <=> NoDataAtAll
  BY <1>1, <1>3 DEF NoDataAtAll
<1>5. \A r, c : KindRead(r, c)' = KindRead(r, c)
  BY <1>1 DEF KindRead
<1> QED
  BY <1>1, <1>2, <1>3, <1>4, <1>5

(* The row asked for: the one given, else the first with data, else row 1.   *)
LEMMA RequestedFacts ==
    ASSUME TypeOK
    PROVE  /\ Requested \in Nat
           /\ opts.has_explicit_range => Requested = opts.range.beg.row
           /\ (~opts.has_explicit_range /\ NoDataAtAll) => Requested = 1
           /\ (~opts.has_explicit_range /\ ~NoDataAtAll) =>
                /\ Requested \in Rows /\ ~NoDataIn(Requested)
                /\ \A q \in Rows : q < Requested => NoDataIn(q)
                /\ \A r \in Rows : (~NoDataIn(r) /\ \A q \in Rows : q < r => NoDataIn(q)) =>
                                     r = Requested
<1>1. CASE opts.has_explicit_range
  <2>1. Requested = opts.range.beg.row
    BY <1>1 DEF Requested
  <2>2. opts.range.beg.row \in 1 .. MaxRow + 1 /\ MaxRow \in Nat
    BY <1>1, SniffFacts DEF Ranges
  <2> QED
    BY <1>1, <2>1, <2>2
<1>2. CASE ~opts.has_explicit_range /\ NoDataAtAll
  BY <1>2 DEF Requested, NoDataAtAll, NoDataIn
<1>3. CASE ~opts.has_explicit_range /\ ~NoDataAtAll
  <2> DEFINE Filled == {r \in Rows : ~NoDataIn(r)}
  <2>1. Filled \in SUBSET Nat /\ Filled # {}
    BY <1>3, SniffFacts DEF NoDataAtAll
  <2>2. PICK r \in Filled : \A q \in Filled : r <= q
    <3> HIDE DEF Filled
    <3> QED
      BY <2>1, LeastExists
  <2>3. \A q \in Rows : q \in Int
    BY SniffFacts
  <2>4. /\ r \in Rows /\ ~NoDataIn(r)
        /\ \A q \in Rows : q < r => NoDataIn(q)
    BY <2>2, <2>3
  <2>5. Requested = CHOOSE k \in Rows : /\ \E c \in Cols : HasData(sheet[k][c])
                                        /\ \A q \in Rows : q < k => \A c \in Cols : ~HasData(sheet[q][c])
    BY <1>3 DEF Requested, NoDataAtAll, NoDataIn
  <2>6. /\ Requested \in Rows /\ ~NoDataIn(Requested)
        /\ \A q \in Rows : q < Requested => NoDataIn(q)
    BY <2>4, <2>5 DEF NoDataIn
  <2>7. ASSUME NEW k \in Rows, ~NoDataIn(k), \A q \in Rows : q < k => NoDataIn(q)
        PROVE  k = Requested
    BY <2>3, <2>6, <2>7
  <2>8. Requested \in Nat
    BY <2>6, SniffFacts
  <2> QED
    BY <1>3, <2>6, <2>7, <2>8
<1> QED
  BY <1>1, <1>2, <1>3

-----------------------------------------------------------------------------
(* A sequence that continues with another one is their concatenation.        *)
LEMMA Continued ==
    ASSUME NEW S, NEW s \in Seq(S), NEW t \in Seq(S), NEW u \in Seq(S),
           Len(u) = Len(s) + Len(t),
           \A i \in 1 .. Len(s) : u[i] = s[i],
           \A i \in 1 .. Len(t) : u[Len(s) + i] = t[i]
    PROVE  s \o t = u
<1>1. Len(s \o t) = Len(u) /\ s \o t \in Seq(S) /\ Len(s) \in Nat /\ Len(t) \in Nat
  OBVIOUS
<1>2. ASSUME NEW i \in 1 .. Len(u) PROVE (s \o t)[i] = u[i]
  <2>1. CASE i <= Len(s)
    BY <2>1
  <2>2. CASE ~(i <= Len(s))
    <3>1. i - Len(s) \in 1 .. Len(t) /\ Len(s) + (i - Len(s)) = i
      BY <1>1, <2>2
    <3>2. (s \o t)[i] = t[i - Len(s)]
      BY <1>1, <2>2, <3>1
    <3> QED
      BY <3>1, <3>2
  <2> QED
    BY <2>1, <2>2
<1> QED
  BY <1>1, <1>2

(* Padding puts one cell in every column from the first up to the last.      *)
LEMMA PaddingFacts ==
    ASSUME NEW from \in Int, NEW to \in Int, NEW row
    PROVE  /\ from <= to => Padding(from, to, row)
                             = [i \in 1 .. to - from |-> CellAt("padding", row, from + i - 1)]
           /\ ~(from < to) => Padding(from, to, row) = << >>
<1>1. from <= to => (IF from < to THEN to - from ELSE 0) = to - from
  OBVIOUS
<1>2. from <= to => Padding(from, to, row)
                    = [i \in 1 .. to - from |-> CellAt("padding", row, from + i - 1)]
  BY <1>1 DEF Padding
<1>3. ASSUME ~(from < to) PROVE Padding(from, to, row) = << >>
  <2>1. Padding(from, to, row) = [i \in 1 .. 0 |-> CellAt("padding", row, from + i - 1)]
    BY <1>3 DEF Padding
  <2> QED
    BY <2>1
<1> QED
  BY <1>2, <1>3

(* The cells of a row, one for each column up to the last.                   *)
LEMMA RowCellsFacts ==
    ASSUME TypeOK, NEW row \in Rows, NEW last \in Int,
           range.beg.col - 1 <= last, last < range.end.col
    PROVE  /\ last - range.beg.col + 1 \in Nat
           /\ RowCells(row, last) \in Seq(CellRecords)
           /\ Len(RowCells(row, last)) = last - range.beg.col + 1
           /\ \A i \in 1 .. last - range.beg.col + 1 :
                RowCells(row, last)[i]
                  = CellAt(KindRead(row, range.beg.col + i - 1), row, range.beg.col + i - 1)
<1>1. /\ range.beg.col \in 1 .. MaxCol /\ range.end.col \in 1 .. MaxCol + 1
      /\ MaxRow \in Nat \ {0} /\ MaxCol \in Nat \ {0, 1} /\ row \in 1 .. MaxRow
      /\ sheet[row] \in [Cols -> CellKinds]
  BY SniffFacts
<1>2. last - range.beg.col + 1 \in Nat
  BY <1>1
<1>3. \A i \in 1 .. last - range.beg.col + 1 : range.beg.col + i - 1 \in Cols
  BY SMTT(30), <1>1 DEF Cols
<1>4. \A c \in Cols : CellAt(KindRead(row, c), row, c) \in CellRecords
  BY <1>1 DEF KindRead, CellAt, CellRecords
<1>5. \A i \in 1 .. last - range.beg.col + 1 :
        CellAt(KindRead(row, range.beg.col + i - 1), row, range.beg.col + i - 1) \in CellRecords
  BY <1>3, <1>4
<1> QED
  BY <1>2, <1>5 DEF RowCells

(* Padding fills up a row whose next columns have no element.                *)
LEMMA PaddedRow ==
    ASSUME TypeOK, NEW row \in Rows, NEW last \in Int, NEW to \in Int,
           range.beg.col - 1 <= last, last < to, to <= range.end.col,
           \A c \in Cols : (last < c /\ c < to) => sheet[row][c] = "absent"
    PROVE  RowCells(row, last) \o Padding(last + 1, to, row) = RowCells(row, to - 1)
<1>1. /\ range.beg.col \in 1 .. MaxCol /\ range.end.col \in 1 .. MaxCol + 1
      /\ MaxCol \in Nat \ {0, 1}
  BY SniffFacts
<1>2. /\ last - range.beg.col + 1 \in Nat
      /\ RowCells(row, last) \in Seq(CellRecords)
      /\ Len(RowCells(row, last)) = last - range.beg.col + 1
      /\ \A i \in 1 .. last - range.beg.col + 1 :
           RowCells(row, last)[i]
             = CellAt(KindRead(row, range.beg.col + i - 1), row, range.beg.col + i - 1)
  BY <1>1, RowCellsFacts
<1>3. /\ to - range.beg.col \in Nat
      /\ RowCells(row, to - 1) \in Seq(CellRecords)
      /\ Len(RowCells(row, to - 1)) = to - range.beg.col
      /\ \A i \in 1 .. to - range.beg.col :
           RowCells(row, to - 1)[i]
             = CellAt(KindRead(row, range.beg.col + i - 1), row, range.beg.col + i - 1)
  <2>1. range.beg.col - 1 <= to - 1 /\ to - 1 < range.end.col /\ to - 1 \in Int
        /\ (to - 1) - range.beg.col + 1 = to - range.beg.col
    BY <1>1
  <2> QED
    BY <2>1, RowCellsFacts
<1>4. Padding(last + 1, to, row)
        = [i \in 1 .. to - (last + 1) |-> CellAt("padding", row, last + 1 + i - 1)]
  BY PaddingFacts
<1>5. ASSUME NEW i \in 1 .. to - (last + 1)
      PROVE  /\ last + 1 + i - 1 = last + i /\ last + i \in Cols
             /\ KindRead(row, last + i) = "padding"
             /\ CellAt("padding", row, last + i) \in CellRecords
  <2>1. last + 1 + i - 1 = last + i /\ last < last + i /\ last + i < to /\ last + i \in Cols
    BY <1>1 DEF Cols
  <2>2. KindRead(row, last + i) = "padding"
    BY <2>1 DEF KindRead
  <2>3. row \in 1 .. MaxRow + 1
    BY SniffFacts
  <2> QED
    BY <2>1, <2>2, <2>3 DEF CellAt, CellRecords
<1> DEFINE s == RowCells(row, last)
           t == Padding(last + 1, to, row)
           u == RowCells(row, to - 1)
<1>6. to - (last + 1) \in Nat
  BY <1>1
<1>7. /\ t \in Seq(CellRecords) /\ Len(t) = to - (last + 1)
      /\ \A i \in 1 .. to - (last + 1) : t[i] = CellAt("padding", row, last + i)
  BY <1>4, <1>5, <1>6
<1> HIDE DEF s, t, u
<1>8. /\ range.beg.col \in Int /\ range.beg.col - 1 <= last
      /\ Len(s) = last - range.beg.col + 1 /\ Len(u) = to - range.beg.col
      /\ Len(u) = Len(s) + Len(t)
  <2>1. /\ range.beg.col \in Int /\ Len(s) = last - range.beg.col + 1
        /\ Len(u) = to - range.beg.col
    BY <1>1, <1>2, <1>3 DEF s, u
  <2> QED
    BY <1>7, <2>1
<1>9. \A i \in 1 .. Len(s) : u[i] = s[i]
  <2>1. \A i \in 1 .. last - range.beg.col + 1 : i \in 1 .. to - range.beg.col
    BY <1>1
  <2> QED
    BY <1>2, <1>3, <2>1 DEF s, u
<1>10. \A i \in 1 .. Len(t) : u[Len(s) + i] = t[i]
  <2> SUFFICES ASSUME NEW i \in 1 .. to - (last + 1) PROVE u[Len(s) + i] = t[i]
    BY <1>7
  <2>1. /\ Len(s) + i \in 1 .. to - range.beg.col
        /\ range.beg.col + (Len(s) + i) - 1 = last + i
    <3>1. PICK n \in Nat : n = Len(s) /\ n = last - range.beg.col + 1
      BY <1>1, <1>2 DEF s
    <3>2. range.beg.col \in Int /\ range.beg.col - 1 <= last /\ to - (last + 1) \in Int
      BY <1>6, <1>8
    <3>3. n + i \in 1 .. to - range.beg.col /\ range.beg.col + (n + i) - 1 = last + i
      BY <3>1, <3>2
    <3> QED
      BY <3>1, <3>3
  <2>2. u[Len(s) + i] = CellAt(KindRead(row, last + i), row, last + i)
    BY <1>3, <2>1 DEF u
  <2> QED
    BY <1>5, <1>7, <2>2
<1>11. s \in Seq(CellRecords) /\ u \in Seq(CellRecords)
  BY <1>2, <1>3 DEF s, u
<1>12. s \o t = u
  BY <1>7, <1>8, <1>9, <1>10, <1>11, Continued
<1> QED
  BY <1>12 DEF s, t, u

(* An element that is read extends the row by itself and by what is missing  *)
(* before it.                                                                *)
LEMMA RowWithCell ==
    ASSUME TypeOK, state = "ROW", NEW c \in Cols, IsNextCell(c), InCols(range, c),
           range.beg.col - 1 <= last_col, last_col < c,
           column_cells = RowCells(cell_pos.row, last_col),
           \A d \in Cols : (last_col < d /\ d < c) => Kind(d) = "absent"
    PROVE  column_cells \o Padding(last_col + 1, c, cell_pos.row) \o <<CellAt(Kind(c), cell_pos.row, c)>>
             = RowCells(cell_pos.row, c)
<1>1. /\ range.beg.col \in 1 .. MaxCol /\ range.end.col \in 1 .. MaxCol + 1 /\ MaxCol \in Nat
      /\ last_col \in Int /\ c \in Int /\ cell_pos.row \in Rows
      /\ range.beg.col <= c /\ c < range.end.col
      /\ sheet[cell_pos.row] \in [Cols -> CellKinds] /\ cell_pos.row \in 1 .. MaxRow + 1
  BY SMTT(30), SniffFacts DEF TypeOK, Cols, InCols
<1> DEFINE s == RowCells(cell_pos.row, c - 1)
           u == RowCells(cell_pos.row, c)
           x == CellAt(Kind(c), cell_pos.row, c)
<1>2. column_cells \o Padding(last_col + 1, c, cell_pos.row) = s
  <2>1. \A d \in Cols : (last_col < d /\ d < c) => sheet[cell_pos.row][d] = "absent"
    BY DEF Kind
  <2>2. c <= range.end.col
    BY <1>1
  <2>3. RowCells(cell_pos.row, last_col) \o Padding(last_col + 1, c, cell_pos.row)
          = RowCells(cell_pos.row, c - 1)
    BY <1>1, <2>1, <2>2, PaddedRow
  <2> QED
    BY <2>3
<1>3. /\ s \in Seq(CellRecords) /\ Len(s) = c - range.beg.col
      /\ \A i \in 1 .. c - range.beg.col :
           s[i] = CellAt(KindRead(cell_pos.row, range.beg.col + i - 1), cell_pos.row, range.beg.col + i - 1)
  <2>1. /\ range.beg.col - 1 <= c - 1 /\ c - 1 < range.end.col /\ c - 1 \in Int
        /\ (c - 1) - range.beg.col + 1 = c - range.beg.col
    BY <1>1
  <2> QED
    BY <1>1, <2>1, RowCellsFacts
<1>4. /\ u \in Seq(CellRecords) /\ Len(u) = c - range.beg.col + 1
      /\ \A i \in 1 .. c - range.beg.col + 1 :
           u[i] = CellAt(KindRead(cell_pos.row, range.beg.col + i - 1), cell_pos.row, range.beg.col + i - 1)
  <2>1. range.beg.col - 1 <= c
    BY <1>1
  <2> QED
    BY <1>1, <2>1, RowCellsFacts
<1>5. PICK n \in Nat : n = c - range.beg.col
  BY <1>1
<1>6. range.beg.col + (n + 1) - 1 = c /\ range.beg.col \in Int
  BY <1>1, <1>5
<1>7. Kind(c) = KindRead(cell_pos.row, c) /\ x \in CellRecords
  BY <1>1 DEF IsNextCell, Kind, KindRead, CellAt, CellRecords
<1> HIDE DEF s, u, x
<1>8. u[n + 1] = x
  <2>1. n + 1 \in 1 .. c - range.beg.col + 1
    BY <1>5
  <2> QED
    BY <1>4, <1>6, <1>7, <2>1 DEF x
<1>9. \A i \in 1 .. n : u[i] = s[i]
  <2>1. \A i \in 1 .. n : i \in 1 .. c - range.beg.col + 1
    BY <1>5
  <2> QED
    BY <1>3, <1>4, <1>5, <2>1
<1>10. s \o <<x>> = u
  <2>1. /\ <<x>> \in Seq(CellRecords) /\ Len(<<x>>) = 1 /\ <<x>>[1] = x
    BY <1>7
  <2>2. Len(s) = n /\ Len(u) = n + 1
    BY <1>3, <1>4, <1>5
  <2>3. \A i \in 1 .. Len(<<x>>) : u[Len(s) + i] = <<x>>[i]
    BY <1>8, <2>1, <2>2
  <2>4. \A i \in 1 .. Len(s) : u[i] = s[i]
    BY <1>9, <2>2
  <2>5. Len(u) = Len(s) + Len(<<x>>)
    BY <2>1, <2>2
  <2> QED
    BY <1>3, <1>4, <2>1, <2>3, <2>4, <2>5, Continued
<1> QED
  BY <1>2, <1>10 DEF s, u, x

(* A row of the range that has ended is complete: one cell for each column.  *)
LEMMA CompletedRow ==
    ASSUME TypeOK, HeaderSniffed, phase = "header", state = "ROW", NoMoreCells,
           InRows(range, cell_pos.row)
    PROVE  Completed = WholeRow(cell_pos.row)
<1>1. /\ range.beg.col - 1 <= last_col /\ last_col < range.end.col
      /\ column_cells = RowCells(cell_pos.row, last_col)
      /\ \A c \in Cols : (last_col < c /\ c <= cell_pos.col /\ InCols(range, c)) => Kind(c) = "absent"
  BY DEF HeaderSniffed
<1>2. /\ last_col \in Int /\ cell_pos.col \in Int /\ cell_pos.row \in Rows
      /\ range.beg.col \in Int /\ range.end.col \in Int
  BY SniffFacts DEF TypeOK
<1>3. ASSUME NEW c \in Cols, last_col < c, c < range.end.col
      PROVE  sheet[cell_pos.row][c] = "absent"
  <2>1. c \in Int /\ InCols(range, c)
    BY <1>1, <1>2, <1>3 DEF Cols, InCols
  <2>2. CASE c <= cell_pos.col
    BY <1>1, <1>3, <2>1, <2>2 DEF Kind
  <2>3. CASE c > cell_pos.col
    BY <2>3 DEF NoMoreCells, Kind
  <2> QED
    BY <1>2, <2>1, <2>2, <2>3
<1> QED
  <2>1. range.end.col <= range.end.col
    BY <1>2
  <2>2. RowCells(cell_pos.row, last_col) \o Padding(last_col + 1, range.end.col, cell_pos.row)
          = RowCells(cell_pos.row, range.end.col - 1)
    BY <1>1, <1>2, <1>3, <2>1, PaddedRow
  <2> QED
    BY <1>1, <2>2 DEF Completed, WholeRow

(* What depends on the worksheet and the range only.                         *)
LEMMA FixedRange ==
    ASSUME UNCHANGED <<sheet, opts>>, range'.beg.col = range.beg.col, range'.end.col = range.end.col
    PROVE  /\ \A row, last : RowCells(row, last)' = RowCells(row, last)
           /\ \A row : WholeRow(row)' = WholeRow(row)
<1>1. \A r, c : KindRead(r, c)' = KindRead(r, c)
  BY FixedSniff
<1>2. \A row, last : RowCells(row, last)' = RowCells(row, last)
  BY <1>1 DEF RowCells, CellAt
<1>3. \A row : WholeRow(row)' = WholeRow(row)
  BY <1>2 DEF WholeRow
<1> QED
  BY <1>2, <1>3

(* A step that leaves the range and the header alone keeps what is known of  *)
(* them.                                                                     *)
LEMMA RangeFrame ==
    ASSUME UNCHANGED <<sheet, opts, range, first_row>>, RangeStarts, HeaderTaken,
           phase' # "range" => phase # "range",
           ~first_row => header_cells' = header_cells
    PROVE  RangeStarts' /\ HeaderTaken'
<1>1. Requested' = Requested /\ (NoDataAtAll' <=> NoDataAtAll) /\ Rows' = Rows
  BY FixedSniff
<1>2. \A row : WholeRow(row)' = WholeRow(row)
  BY FixedRange
<1>3. RangeStarts'
  BY <1>1 DEF RangeStarts
<1>4. HeaderTaken'
  BY <1>1, <1>2 DEF HeaderTaken
<1> QED
  BY <1>3, <1>4

-----------------------------------------------------------------------------
(* The callbacks of RangeSniffer: what it has seen, and the range it hands   *)
(* over when it stops.                                                       *)
LEMMA RangeStep ==
    ASSUME SniffInv, phase = "range", BeginRow \/ Cell \/ EndRow \/ EndSheetData
    PROVE  SniffInv'
<1>1. TypeOK /\ RangeSniffed /\ phase = "range" /\ first_row
  BY DEF SniffInv, RangeSniffed
<1>2. /\ MaxRow \in Nat \ {0} /\ MaxCol \in Nat \ {0, 1}
      /\ Rows \subseteq 1 .. MaxRow
      /\ \A r \in Rows : sheet[r] \in [Cols -> CellKinds]
      /\ cell_pos.row \in 0 .. MaxRow /\ cell_pos.col \in 0 .. MaxCol
      /\ ~opts.has_explicit_range /\ range = WholeSheet
      /\ header_cells = << >> /\ column_cells = << >>
  BY <1>1, SniffFacts DEF TypeOK, RangeSniffed
<1>3. UNCHANGED <<sheet, opts, names, types>>
  BY DEF BeginRow, Cell, EndRow, EndSheetData
<1>4. /\ sheet' = sheet /\ opts' = opts /\ Rows' = Rows /\ Requested' = Requested
      /\ \A r : NoDataIn(r)' <=> NoDataIn(r)
      /\ NoDataAtAll' <=> NoDataAtAll
  BY <1>3, FixedSniff
<1>5. \A c \in Cols : c \in Int
  BY DEF Cols
<1>6. \A r \in Rows : r \in Int
  BY <1>2
<1>11. CASE BeginRow
  <2>1. PICK r \in Rows : IsNextRow(r) /\ cell_pos' = [row |-> r, col |-> 0]
    BY <1>11 DEF BeginRow
  <2>2. /\ state = "SHEETDATA" /\ state' = "ROW" /\ phase' = "range"
        /\ UNCHANGED <<rangeSniffer, range, first_row, header_cells, column_cells, last_col>>
    BY <1>1, <1>11 DEF BeginRow
  <2>3. found = "EMPTY" /\ found' = "EMPTY"
    BY <1>1, <2>2 DEF RangeSniffed, rangeSniffer
  <2>4. \A q \in Rows : Finished(q)' => Finished(q)
    BY <1>2, <1>6, <2>1, <2>2 DEF Finished, IsNextRow
  <2>5. RangeSniffed'
    <3>1. \A c \in Cols : ~(c <= 0)
      BY DEF Cols
    <3> QED
      BY <1>1, <1>2, <1>4, <2>1, <2>2, <2>3, <2>4, <3>1 DEF RangeSniffed
  <2>6. TypeOK'
    <3>1. cell_pos' \in [row : 0 .. MaxRow, col : 0 .. MaxCol]
      BY <1>2, <2>1
    <3> QED
      BY <1>1, <1>3, <1>4, <2>1, <2>2, <3>1 DEF TypeOK, rangeSniffer
  <2> QED
    BY <1>1, <2>2, <2>5, <2>6
    DEF SniffInv, RangeStarts, HeaderTaken, HeaderSniffed, ReadyToResolve, Resolved, Bound
<1>12. CASE Cell
  <2>1. PICK c \in Cols : IsNextCell(c) /\ cell_pos' = [cell_pos EXCEPT !.col = c] /\ OnRangeCell(c)
    BY <1>1, <1>12 DEF Cell
  <2>2. /\ state = "ROW" /\ state' = "ROW" /\ phase' = "range"
        /\ UNCHANGED <<range, first_row, header_cells, column_cells, last_col>>
    BY <1>1, <1>12 DEF Cell
  <2>3. /\ cell_pos'.row = cell_pos.row /\ cell_pos'.col = c
        /\ cell_pos' \in [row : 0 .. MaxRow, col : 0 .. MaxCol]
    BY <1>1, <2>1 DEF TypeOK, Cols
  <2>4. /\ \A d : Kind(d)' = Kind(d)
        /\ \A q : Finished(q)' <=> Finished(q)
    BY <1>4, <2>2, <2>3 DEF Kind, Finished
  <2>5. \A d \in Cols : (d > cell_pos.col /\ d < c) => ~HasData(Kind(d))
    BY <1>2, <1>5, <2>1 DEF IsNextCell, HasData
  <2>6. c > cell_pos.col /\ c \in Cols
    BY <2>1 DEF IsNextCell
  <2>7. TypeOK'
    <3>1. /\ found' \in {"EMPTY", "FOUND", "ENDED"}
          /\ beg_col' \in 0 .. MaxCol /\ end_col' \in 0 .. MaxCol
      BY <1>1, <1>2, <2>1 DEF OnRangeCell, rangeSniffer, TypeOK, Cols
    <3> QED
      BY <1>1, <1>3, <1>4, <2>2, <2>3, <3>1 DEF TypeOK
  <2>8. RangeSniffed'
    <3> SUFFICES
          /\ found' = "EMPTY" => \A d \in Cols : d <= c => ~HasData(Kind(d))
          /\ found' # "EMPTY" =>
               /\ beg_col' \in Cols /\ end_col' \in Cols /\ beg_col' <= end_col' /\ end_col' <= c
               /\ HasData(Kind(beg_col')) /\ HasData(Kind(end_col'))
               /\ \A d \in Cols : d < beg_col' => ~HasData(Kind(d))
          /\ found' = "FOUND" => end_col' = c
          /\ found' = "ENDED" => end_col' < c /\ ~HasData(Kind(end_col' + 1))
      BY <1>1, <1>2, <1>4, <2>2, <2>3, <2>4 DEF RangeSniffed
    <3>1. CASE found = "EMPTY" /\ HasData(Kind(c))
      <4>1. found' = "FOUND" /\ beg_col' = c /\ end_col' = c
        BY <2>1, <3>1 DEF OnRangeCell
      <4>2. \A d \in Cols : d < c => ~HasData(Kind(d))
        BY <1>1, <1>2, <1>5, <2>2, <2>5, <3>1 DEF RangeSniffed
      <4> QED
        BY <1>5, <2>6, <3>1, <4>1, <4>2
    <3>2. CASE found = "EMPTY" /\ ~HasData(Kind(c))
      <4>1. found' = "EMPTY"
        BY <2>1, <3>2 DEF OnRangeCell, rangeSniffer
      <4>2. \A d \in Cols : d <= c => d <= cell_pos.col \/ d = c \/ (d > cell_pos.col /\ d < c)
        BY <1>2, <1>5, <2>6
      <4>3. \A d \in Cols : d <= cell_pos.col => ~HasData(Kind(d))
        BY <1>1, <2>2, <3>2 DEF RangeSniffed
      <4> QED
        BY <2>5, <3>2, <4>1, <4>2, <4>3
    <3>3. CASE found = "FOUND" /\ HasData(Kind(c))
      <4>1. found' = "FOUND" /\ beg_col' = beg_col /\ end_col' = c
        BY <2>1, <3>3 DEF OnRangeCell
      <4>2. /\ beg_col \in Cols /\ end_col \in Cols /\ beg_col <= end_col /\ end_col <= cell_pos.col
            /\ HasData(Kind(beg_col))
            /\ \A d \in Cols : d < beg_col => ~HasData(Kind(d))
        BY <1>1, <3>3 DEF RangeSniffed
      <4>3. beg_col <= c
        BY <1>2, <1>5, <2>6, <4>2
      <4> QED
        BY <1>5, <2>6, <3>3, <4>1, <4>2, <4>3
    <3>4. CASE found = "FOUND" /\ ~HasData(Kind(c))
      <4>1. found' = "ENDED" /\ beg_col' = beg_col /\ end_col' = end_col
        BY <2>1, <3>4 DEF OnRangeCell
      <4>2. /\ beg_col \in Cols /\ end_col \in Cols /\ beg_col <= end_col /\ end_col = cell_pos.col
            /\ HasData(Kind(beg_col)) /\ HasData(Kind(end_col))
            /\ \A d \in Cols : d < beg_col => ~HasData(Kind(d))
        BY <1>1, <3>4 DEF RangeSniffed
      <4>3. end_col < c /\ end_col <= c
        BY <1>2, <1>5, <2>6, <4>2
      <4>4. ~HasData(Kind(end_col + 1))
        <5>1. end_col + 1 = c \/ (end_col + 1 \in Cols /\ end_col + 1 > cell_pos.col /\ end_col + 1 < c)
          BY <1>2, <2>6, <4>2, <4>3 DEF Cols
        <5> QED
          BY <2>5, <3>4, <5>1
      <4> QED
        BY <4>1, <4>2, <4>3, <4>4
    <3>5. CASE found = "ENDED"
      <4>1. found' = "ENDED" /\ beg_col' = beg_col /\ end_col' = end_col
        BY <2>1, <3>5 DEF OnRangeCell, rangeSniffer
      <4>2. /\ beg_col \in Cols /\ end_col \in Cols /\ beg_col <= end_col /\ end_col < cell_pos.col
            /\ HasData(Kind(beg_col)) /\ HasData(Kind(end_col)) /\ ~HasData(Kind(end_col + 1))
            /\ \A d \in Cols : d < beg_col => ~HasData(Kind(d))
        BY <1>1, <3>5 DEF RangeSniffed
      <4>3. end_col < c /\ end_col <= c
        BY <1>2, <1>5, <2>6, <4>2
      <4> QED
        BY <4>1, <4>2, <4>3
    <3> QED
      BY <1>1, <3>1, <3>2, <3>3, <3>4, <3>5 DEF TypeOK
  <2> QED
    BY <1>1, <2>2, <2>7, <2>8
    DEF SniffInv, RangeStarts, HeaderTaken, HeaderSniffed, ReadyToResolve, Resolved, Bound
<1>13. CASE EndRow
  <2>1. /\ state = "ROW" /\ NoMoreCells /\ OnRangeEndRow /\ cell_pos.row \in Rows
        /\ UNCHANGED <<first_row, last_col, header_cells, column_cells>>
    BY <1>1, <1>13 DEF EndRow, TypeOK
  <2>2. \A c \in Cols : c > cell_pos.col => ~HasData(Kind(c))
    BY <2>1 DEF NoMoreCells, HasData
  <2>3. CASE found = "EMPTY"
    <3>1. /\ found' = "EMPTY" /\ beg_col' = 0 /\ end_col' = 0 /\ state' = "SHEETDATA"
          /\ UNCHANGED <<phase, cell_pos, range>>
      BY <2>1, <2>3 DEF OnRangeEndRow, ReadOn
    <3>2. NoDataIn(cell_pos.row)
      <4>1. \A c \in Cols : c <= cell_pos.col => ~HasData(Kind(c))
        BY <1>1, <2>1, <2>3 DEF RangeSniffed
      <4>2. \A c \in Cols : c <= cell_pos.col \/ c > cell_pos.col
        BY <1>2, <1>5
      <4> QED
        BY <2>2, <4>1, <4>2 DEF NoDataIn, Kind
    <3>3. \A q \in Rows : Finished(q)' => Finished(q) \/ q = cell_pos.row
      BY <3>1 DEF Finished
    <3>4. RangeSniffed'
      BY <1>1, <1>2, <1>4, <2>1, <3>1, <3>2, <3>3 DEF RangeSniffed
    <3>5. TypeOK'
      BY <1>1, <1>2, <1>3, <2>1, <3>1 DEF TypeOK
    <3> QED
      BY <1>1, <2>1, <3>1, <3>4, <3>5
      DEF SniffInv, RangeStarts, HeaderTaken, HeaderSniffed, ReadyToResolve, Resolved, Bound
  <2>4. CASE found # "EMPTY"
    <3>1. /\ range' = GetRange(cell_pos.row) /\ phase' = "header" /\ state' = "SHEETDATA"
          /\ cell_pos' = [row |-> 0, col |-> 0] /\ UNCHANGED rangeSniffer
      BY <2>1, <2>4 DEF OnRangeEndRow, StopAndGoTo
    <3>2. /\ beg_col \in Cols /\ end_col \in Cols /\ beg_col <= end_col /\ end_col <= cell_pos.col
          /\ HasData(Kind(beg_col)) /\ HasData(Kind(end_col))
          /\ \A c \in Cols : c < beg_col => ~HasData(Kind(c))
      BY <1>1, <2>4 DEF RangeSniffed
    <3>3. /\ range'.beg.row = cell_pos.row /\ range'.beg.col = beg_col
          /\ range'.end.row = MaxRow + 1 /\ range'.end.col = end_col + 1
          /\ range' \in Ranges
          /\ range'.beg.row <= range'.end.row /\ range'.beg.col < range'.end.col
      <4>1. /\ range'.beg.row = cell_pos.row /\ range'.beg.col = beg_col
            /\ range'.end.row = MaxRow + 1 /\ range'.end.col = end_col + 1
        BY <3>1 DEF GetRange
      <4>2. /\ cell_pos.row \in 1 .. MaxRow + 1 /\ MaxRow + 1 \in 1 .. MaxRow + 1
            /\ end_col + 1 \in 1 .. MaxCol + 1
            /\ cell_pos.row <= MaxRow + 1 /\ beg_col < end_col + 1
        BY <1>2, <2>1, <3>2 DEF Cols
      <4>3. range' \in Ranges
        BY <3>1, <3>2, <4>2 DEF GetRange, Ranges
      <4> QED
        BY <4>1, <4>2, <4>3
    <3>4. cell_pos.row = Requested /\ ~NoDataAtAll
      <4>1. ~NoDataIn(cell_pos.row)
        BY <3>2 DEF NoDataIn, Kind
      <4>2. \A q \in Rows : q < cell_pos.row => NoDataIn(q)
        BY <1>1 DEF RangeSniffed, Finished
      <4>3. ~NoDataAtAll
        BY <2>1, <4>1 DEF NoDataAtAll
      <4> QED
        BY <1>1, <1>2, <2>1, <4>1, <4>2, <4>3, RequestedFacts
    <3>5. end_col + 1 \in Cols => ~HasData(sheet[cell_pos.row][end_col + 1])
      <4>1. CASE found = "FOUND"
        <5>1. end_col + 1 > cell_pos.col
          BY <1>1, <1>2, <4>1 DEF RangeSniffed
        <5> QED
          BY <2>2, <5>1 DEF Kind
      <4>2. CASE found = "ENDED"
        BY <1>1, <4>2 DEF RangeSniffed, Kind
      <4> QED
        BY <1>1, <2>4, <4>1, <4>2 DEF TypeOK
    <3>6. end_col + 1 - 1 = end_col
      BY <3>2 DEF Cols
    <3>7. RangeStarts'
      <4>1. /\ HasData(sheet[cell_pos.row][beg_col]) /\ HasData(sheet[cell_pos.row][end_col])
            /\ \A c \in Cols : c < beg_col => ~HasData(sheet[cell_pos.row][c])
        BY <3>2 DEF Kind
      <4>2. /\ range'.beg.row = Requested' /\ ~opts'.has_explicit_range
            /\ range'.end.row = MaxRow + 1
        BY <1>2, <1>4, <3>3, <3>4
      <4>3. /\ \A c \in Cols : c < range'.beg.col => ~HasData(sheet'[Requested'][c])
            /\ HasData(sheet'[Requested'][range'.beg.col])
            /\ HasData(sheet'[Requested'][range'.end.col - 1])
            /\ range'.end.col \in Cols => ~HasData(sheet'[Requested'][range'.end.col])
        <5>1. /\ sheet'[Requested'] = sheet[cell_pos.row] /\ range'.beg.col = beg_col
              /\ range'.end.col = end_col + 1 /\ range'.end.col - 1 = end_col
          <6>1. end_col \in Int
            BY <3>2 DEF Cols
          <6>2. range'.end.col = end_col + 1 /\ range'.beg.col = beg_col
            BY <3>3
          <6>3. range'.end.col - 1 = end_col
            BY <6>1, <6>2
          <6> QED
            BY <1>4, <3>4, <6>2, <6>3
        <5> QED
          BY <3>5, <4>1, <5>1
      <4> QED
        BY <4>2, <4>3 DEF RangeStarts, HasData
    <3>8. HeaderSniffed'
      <4>1. \A q \in Rows : ~Finished(q)'
        <5> SUFFICES ASSUME NEW q \in Rows PROVE ~(q < cell_pos'.row) /\ ~(q = cell_pos'.row /\ state' = "SHEETDATA")
          BY DEF Finished
        <5>1. q \in Nat /\ q >= 1
          BY <1>2
        <5> QED
          BY <3>1, <5>1
      <4> QED
        BY <1>2, <1>4, <2>1, <3>1, <4>1 DEF HeaderSniffed
    <3>9. TypeOK'
      <4>1. cell_pos' \in [row : 0 .. MaxRow, col : 0 .. MaxCol]
        BY <1>2, <3>1
      <4> QED
        BY <1>1, <1>3, <2>1, <3>1, <3>3, <4>1 DEF TypeOK, rangeSniffer
    <3> QED
      BY <1>1, <2>1, <3>1, <3>7, <3>8, <3>9
      DEF SniffInv, RangeSniffed, HeaderTaken, ReadyToResolve, Resolved, Bound
  <2> QED
    BY <2>3, <2>4
<1>14. CASE EndSheetData
  <2>1. /\ state = "SHEETDATA" /\ \A r \in Rows : r <= cell_pos.row
        /\ phase' = "header" /\ state' = "SHEETDATA" /\ cell_pos' = [row |-> 0, col |-> 0]
        /\ UNCHANGED <<rangeSniffer, headerSniffer>>
    BY <1>1, <1>14 DEF EndSheetData, StopAndGoTo
  <2>2. NoDataAtAll
    <3>1. \A r \in Rows : Finished(r)
      BY <1>2, <1>6, <2>1 DEF Finished
    <3> QED
      BY <1>1, <3>1 DEF RangeSniffed, NoDataAtAll
  <2>3. Requested = 1
    BY <1>1, <1>2, <2>2, RequestedFacts
  <2>4. RangeStarts'
    BY <1>2, <1>4, <2>1, <2>2, <2>3 DEF RangeStarts, WholeSheet, headerSniffer
  <2>5. HeaderSniffed'
    <3>1. \A q \in Rows : ~Finished(q)'
      <4>1. cell_pos'.row = 0
        BY <2>1
      <4> QED
        BY <1>2, <4>1 DEF Finished
    <3> QED
      BY <1>2, <1>4, <2>1, <3>1 DEF HeaderSniffed, headerSniffer
  <2>6. TypeOK'
    <3>1. cell_pos' \in [row : 0 .. MaxRow, col : 0 .. MaxCol]
      BY <1>2, <2>1
    <3> QED
      BY <1>1, <1>3, <2>1, <3>1 DEF TypeOK, rangeSniffer, headerSniffer
  <2> QED
    BY <1>1, <2>1, <2>4, <2>5, <2>6
    DEF SniffInv, RangeSniffed, HeaderTaken, ReadyToResolve, Resolved, Bound, headerSniffer
<1> QED
  BY <1>11, <1>12, <1>13, <1>14

(* A cell the sniffer adds to a row, and the cells that complete it, are     *)
(* cells of the worksheet.                                                   *)
LEMMA CellsTyped ==
    ASSUME TypeOK, state = "ROW", NEW to \in 1 .. MaxCol + 1
    PROVE  /\ column_cells \o Padding(last_col + 1, to, cell_pos.row) \in Seq(CellRecords)
           /\ to \in Cols =>
                column_cells \o Padding(last_col + 1, to, cell_pos.row)
                  \o <<CellAt(Kind(to), cell_pos.row, to)>> \in Seq(CellRecords)
<1>1. /\ MaxRow \in Nat \ {0} /\ MaxCol \in Nat \ {0, 1}
      /\ cell_pos.row \in 1 .. MaxRow + 1 /\ sheet[cell_pos.row] \in [Cols -> CellKinds]
      /\ last_col \in 0 .. MaxCol /\ column_cells \in Seq(CellRecords)
  BY SniffFacts DEF TypeOK
<1>2. Padding(last_col + 1, to, cell_pos.row) \in Seq(CellRecords)
  <2>1. CASE last_col + 1 <= to
    <3>1. Padding(last_col + 1, to, cell_pos.row)
            = [i \in 1 .. to - (last_col + 1) |-> CellAt("padding", cell_pos.row, last_col + 1 + i - 1)]
      <4>1. last_col + 1 \in Int /\ to \in Int
        BY <1>1
      <4> QED
        BY <2>1, <4>1, PaddingFacts
    <3>2. \A i \in 1 .. to - (last_col + 1) :
            CellAt("padding", cell_pos.row, last_col + 1 + i - 1) \in CellRecords
      <4> SUFFICES ASSUME NEW i \in 1 .. to - (last_col + 1)
                   PROVE  last_col + 1 + i - 1 \in Cols
        BY <1>1 DEF CellAt, CellRecords
      <4> QED
        BY <1>1 DEF Cols
    <3>3. to - (last_col + 1) \in Nat
      BY <1>1, <2>1
    <3> QED
      BY <3>1, <3>2, <3>3
  <2>2. CASE ~(last_col + 1 <= to)
    <3>1. ~(last_col + 1 < to) /\ last_col + 1 \in Int /\ to \in Int
      BY <1>1, <2>2
    <3> QED
      BY <3>1, PaddingFacts
  <2> QED
    BY <2>1, <2>2
<1>3. column_cells \o Padding(last_col + 1, to, cell_pos.row) \in Seq(CellRecords)
  BY <1>1, <1>2
<1>4. ASSUME to \in Cols PROVE <<CellAt(Kind(to), cell_pos.row, to)>> \in Seq(CellRecords)
  <2>1. CellAt(Kind(to), cell_pos.row, to) \in CellRecords
    BY <1>1, <1>4 DEF Kind, CellAt, CellRecords
  <2> QED
    BY <2>1
<1> QED
  BY <1>3, <1>4

(* The callbacks of HeaderSniffer: the rows it drops, the row it takes for   *)
(* the header and the row it leaves for SniffHeader.                         *)
LEMMA HeaderStep ==
    ASSUME SniffInv, phase = "header", BeginRow \/ Cell \/ EndRow \/ EndSheetData
    PROVE  SniffInv'
<1>1. TypeOK /\ HeaderSniffed /\ RangeStarts /\ HeaderTaken
  BY DEF SniffInv
<1>2. /\ MaxRow \in Nat \ {0} /\ MaxCol \in Nat \ {0, 1}
      /\ Rows \subseteq 1 .. MaxRow
      /\ \A r \in Rows : sheet[r] \in [Cols -> CellKinds]
      /\ cell_pos.row \in 0 .. MaxRow /\ cell_pos.col \in 0 .. MaxCol /\ last_col \in 0 .. MaxCol
      /\ range.beg.row \in 1 .. MaxRow + 1 /\ range.end.row \in 1 .. MaxRow + 1
      /\ range.beg.row <= range.end.row
      /\ range.beg.col \in 1 .. MaxCol /\ range.end.col \in 1 .. MaxCol + 1
      /\ range.beg.col < range.end.col
  BY <1>1, SniffFacts DEF TypeOK
<1>3. UNCHANGED <<sheet, opts, names, types, rangeSniffer>>
  BY DEF BeginRow, Cell, EndRow, EndSheetData
<1>4. /\ sheet' = sheet /\ opts' = opts /\ Rows' = Rows /\ Requested' = Requested
      /\ (NoDataAtAll' <=> NoDataAtAll)
      /\ \A r, c : KindRead(r, c)' = KindRead(r, c)
  BY <1>3, FixedSniff
<1>5. \A c \in Cols : c \in Int
  BY DEF Cols
<1>6. \A r \in Rows : r \in Int
  BY <1>2
<1>7. range' = range => RowCells(cell_pos.row, last_col)' = RowCells(cell_pos'.row, last_col')
  BY <1>4 DEF RowCells, CellAt
<1>11. CASE BeginRow
  <2>1. PICK r \in Rows : IsNextRow(r) /\ cell_pos' = [row |-> r, col |-> 0] /\ OnHeaderBeginRow(r)
    BY <1>11 DEF BeginRow
  <2>2. /\ state = "SHEETDATA" /\ state' = "ROW" /\ phase' = "header"
        /\ UNCHANGED <<range, first_row, header_cells>>
    BY <1>11 DEF BeginRow
  <2>3. \A q \in Rows : Finished(q)' => Finished(q)
    <3> SUFFICES ASSUME NEW q \in Rows, Finished(q)' PROVE Finished(q)
      OBVIOUS
    <3>1. q < r
      BY <2>1, <2>2 DEF Finished
    <3>2. q <= cell_pos.row
      BY <1>2, <1>6, <2>1, <3>1 DEF IsNextRow
    <3>3. q < cell_pos.row \/ q = cell_pos.row
      <4>1. \A m, n \in Int : m <= n => m < n \/ m = n
        OBVIOUS
      <4>2. q \in Int /\ cell_pos.row \in Int
        BY <1>2, <1>6
      <4> QED
        BY <3>2, <4>1, <4>2, Zenon
    <3> QED
      BY <2>2, <3>3 DEF Finished
  <2>4. RangeStarts' /\ HeaderTaken'
    BY <1>1, <1>3, <2>2, RangeFrame
  <2>5. HeaderSniffed'
    <3>1. ASSUME InRows(range, r)
          PROVE  /\ column_cells' = << >> /\ last_col' = range.beg.col - 1
                 /\ RowCells(r, last_col') = << >>
      <4>1. column_cells' = << >> /\ last_col' = range.beg.col - 1
        BY <2>1, <3>1 DEF OnHeaderBeginRow
      <4>2. range.beg.col - 1 - range.beg.col + 1 = 0
        BY <1>2
      <4>3. RowCells(r, last_col') = << >>
        BY <4>1, <4>2 DEF RowCells
      <4> QED
        BY <4>1, <4>3
    <3>2. \A c \in Cols : ~(c <= 0)
      BY DEF Cols
    <3>3. range.beg.col - 1 <= range.beg.col - 1 /\ range.beg.col - 1 < range.end.col
      BY <1>2
    <3>4. cell_pos'.row = r /\ cell_pos'.col = 0
      BY <2>1
    <3>5. InRows(range, r) =>
           /\ range'.beg.col - 1 <= last_col' /\ last_col' < range'.end.col
           /\ last_col' <= cell_pos'.col \/ last_col' = range'.beg.col - 1
           /\ column_cells' = RowCells(cell_pos.row, last_col)'
           /\ \A c \in Cols : ~(last_col' < c /\ c <= cell_pos'.col /\ InCols(range', c))
      BY <1>7, <2>2, <3>1, <3>2, <3>3, <3>4
    <3>6. first_row' => header_cells' = << >>
      BY <1>1, <2>2 DEF HeaderSniffed
    <3>7. \A row \in Rows' : Finished(row)' => ~InRows(range', row)
      BY <1>1, <1>4, <2>2, <2>3 DEF HeaderSniffed
    <3> QED
      BY <2>2, <3>4, <3>5, <3>6, <3>7 DEF HeaderSniffed, InRows, InCols
  <2>6. TypeOK'
    <3>1. cell_pos' \in [row : 0 .. MaxRow, col : 0 .. MaxCol]
      BY <1>2, <2>1
    <3>2. last_col' \in 0 .. MaxCol /\ column_cells' \in Seq(CellRecords)
      <4>1. range.beg.col - 1 \in 0 .. MaxCol /\ << >> \in Seq(CellRecords)
        BY <1>2
      <4> QED
        BY <1>1, <2>1, <4>1 DEF OnHeaderBeginRow, TypeOK
    <3> QED
      BY <1>1, <1>3, <1>4, <2>1, <2>2, <3>1, <3>2 DEF TypeOK, rangeSniffer
  <2> QED
    BY <2>2, <2>4, <2>5, <2>6 DEF SniffInv, RangeSniffed, ReadyToResolve, Resolved, Bound
<1>12. CASE Cell
  <2>1. PICK c \in Cols : IsNextCell(c) /\ cell_pos' = [cell_pos EXCEPT !.col = c] /\ OnHeaderCell(c)
    BY <1>12 DEF Cell
  <2>2. /\ state = "ROW" /\ state' = "ROW" /\ phase' = "header" /\ cell_pos.row \in Rows
        /\ UNCHANGED <<range, first_row, header_cells>>
    BY <1>1, <1>12 DEF Cell, TypeOK
  <2>3. /\ cell_pos'.row = cell_pos.row /\ cell_pos'.col = c
        /\ cell_pos' \in [row : 0 .. MaxRow, col : 0 .. MaxCol]
    BY <1>1, <2>1 DEF TypeOK, Cols
  <2>4. /\ \A d : Kind(d)' = Kind(d)
        /\ \A q : Finished(q)' <=> Finished(q)
    BY <1>4, <2>2, <2>3 DEF Kind, Finished
  <2>5. /\ \A d \in Cols : (d > cell_pos.col /\ d < c) => Kind(d) = "absent"
        /\ c > cell_pos.col
    BY <1>2, <1>5, <2>1 DEF IsNextCell
  <2>6. RangeStarts' /\ HeaderTaken'
    BY <1>1, <1>3, <2>2, RangeFrame
  <2>8. TypeOK'
    <3>1. c \in 1 .. MaxCol + 1 /\ c \in 0 .. MaxCol
      BY <1>2 DEF Cols
    <3>2. last_col' \in 0 .. MaxCol /\ column_cells' \in Seq(CellRecords)
      BY <1>1, <2>1, <2>2, <3>1, CellsTyped DEF OnHeaderCell, TypeOK
    <3> QED
      BY <1>1, <1>3, <1>4, <2>2, <2>3, <3>2 DEF TypeOK, rangeSniffer
  <2>9. HeaderSniffed'
    <3>1. ASSUME InRows(range, cell_pos.row)
          PROVE  /\ range.beg.col - 1 <= last_col' /\ last_col' < range.end.col
                 /\ last_col' <= c \/ last_col' = range.beg.col - 1
                 /\ column_cells' = RowCells(cell_pos.row, last_col')
                 /\ \A d \in Cols : (last_col' < d /\ d <= c /\ InCols(range, d)) => Kind(d) = "absent"
      <4>1. /\ range.beg.col - 1 <= last_col /\ last_col < range.end.col
            /\ last_col <= cell_pos.col \/ last_col = range.beg.col - 1
            /\ column_cells = RowCells(cell_pos.row, last_col)
            /\ \A d \in Cols : (last_col < d /\ d <= cell_pos.col /\ InCols(range, d)) => Kind(d) = "absent"
        BY <1>1, <2>2, <3>1 DEF HeaderSniffed
      <4>2. CASE InCols(range, c)
        <5>1. last_col < c /\ range.beg.col <= c /\ c < range.end.col
          BY <1>2, <1>5, <2>5, <4>1, <4>2 DEF InCols
        <5>2. ASSUME NEW d \in Cols, last_col < d, d < c PROVE Kind(d) = "absent"
          <6>1. InCols(range, d)
            BY <1>2, <1>5, <4>1, <5>1, <5>2 DEF InCols
          <6>2. d <= cell_pos.col \/ d > cell_pos.col
            BY <1>2, <1>5
          <6> QED
            BY <2>5, <4>1, <5>2, <6>1, <6>2
        <5>3. /\ last_col' = c
              /\ column_cells' = column_cells \o Padding(last_col + 1, c, cell_pos.row)
                                   \o <<CellAt(Kind(c), cell_pos.row, c)>>
          BY <2>1, <4>2 DEF OnHeaderCell
        <5>4. column_cells' = RowCells(cell_pos.row, c)
          BY <1>1, <2>1, <2>2, <4>1, <4>2, <5>1, <5>2, <5>3, RowWithCell
        <5>5. \A d \in Cols : ~(c < d /\ d <= c)
          BY <1>5
        <5>6. range.beg.col - 1 <= c /\ c <= c
          BY <1>2, <1>5, <5>1
        <5> QED
          BY <5>1, <5>3, <5>4, <5>5, <5>6
      <4>3. CASE ~InCols(range, c)
        <5>1. UNCHANGED <<column_cells, last_col>>
          BY <2>1, <4>3 DEF OnHeaderCell
        <5>2. last_col <= cell_pos.col => last_col <= c
          BY <1>2, <1>5, <2>5
        <5>3. \A d \in Cols : d <= c => d <= cell_pos.col \/ d = c \/ (d > cell_pos.col /\ d < c)
          BY <1>2, <1>5, <2>5
        <5>4. \A d \in Cols : (last_col < d /\ d <= c /\ InCols(range, d)) => Kind(d) = "absent"
          BY <2>5, <4>1, <4>3, <5>3
        <5> QED
          BY <4>1, <5>1, <5>2, <5>4
      <4> QED
        BY <4>2, <4>3
    <3>2. InRows(range, cell_pos.row) =>
            /\ range'.beg.col - 1 <= last_col' /\ last_col' < range'.end.col
            /\ last_col' <= cell_pos'.col \/ last_col' = range'.beg.col - 1
            /\ column_cells' = RowCells(cell_pos.row, last_col)'
            /\ \A d \in Cols :
                 (last_col' < d /\ d <= cell_pos'.col /\ InCols(range', d)) => Kind(d)' = "absent"
      BY <1>7, <2>2, <2>3, <2>4, <3>1
    <3>3. first_row' => header_cells' = << >>
      BY <1>1, <2>2 DEF HeaderSniffed
    <3>4. \A row \in Rows' : Finished(row)' => ~InRows(range', row)
      BY <1>1, <1>4, <2>2, <2>4 DEF HeaderSniffed
    <3> QED
      BY <2>2, <2>3, <3>2, <3>3, <3>4 DEF HeaderSniffed, InRows, InCols
  <2> QED
    BY <2>2, <2>6, <2>8, <2>9 DEF SniffInv, RangeSniffed, ReadyToResolve, Resolved, Bound
<1>13. CASE EndRow
  <2>1. /\ state = "ROW" /\ NoMoreCells
        /\ SkipRow \/ TakeHeader \/ TakeDataRow
        /\ cell_pos.row \in Rows
    BY <1>1, <1>13 DEF EndRow, TypeOK
  <2>2. \A q \in Rows : q < cell_pos.row => ~InRows(range, q)
    BY <1>1 DEF HeaderSniffed, Finished
  <2>3. CASE SkipRow
    <3>1. /\ ~InRows(range, cell_pos.row) /\ column_cells' = << >> /\ last_col' = range.beg.col - 1
          /\ UNCHANGED <<range, first_row, header_cells, phase, cell_pos>> /\ state' = "SHEETDATA"
      BY <2>3 DEF SkipRow, ReadOn
    <3>2. RangeStarts' /\ HeaderTaken'
      BY <1>1, <1>3, <3>1, RangeFrame
    <3>3. HeaderSniffed'
      <4>1. \A q \in Rows : Finished(q)' => q < cell_pos.row \/ q = cell_pos.row
        BY <3>1 DEF Finished
      <4> QED
        BY <1>1, <1>4, <2>2, <3>1, <4>1 DEF HeaderSniffed
    <3>4. TypeOK'
      <4>1. last_col' \in 0 .. MaxCol
        BY <1>2, <3>1
      <4> QED
        BY <1>1, <1>3, <3>1, <4>1 DEF TypeOK, rangeSniffer
    <3> QED
      BY <3>1, <3>2, <3>3, <3>4 DEF SniffInv, RangeSniffed, ReadyToResolve, Resolved, Bound
  <2>4. ASSUME InRows(range, cell_pos.row)
        PROVE  /\ Completed = WholeRow(cell_pos.row) /\ Completed \in Seq(CellRecords)
               /\ IsFirstInRange(cell_pos.row)
    <3>1. Completed = WholeRow(cell_pos.row)
      BY <1>1, <2>1, <2>4, CompletedRow
    <3>2. Completed \in Seq(CellRecords)
      <4>1. range.end.col \in 1 .. MaxCol + 1
        BY <1>2
      <4> QED
        BY <1>1, <2>1, <4>1, CellsTyped DEF Completed
    <3>3. \A q \in Rows : InRows(range, q) => cell_pos.row <= q
      BY <1>2, <1>6, <2>2
    <3> QED
      BY <2>1, <2>4, <3>1, <3>2, <3>3 DEF IsFirstInRange
  <2>5. CASE TakeHeader
    <3>1. /\ InRows(range, cell_pos.row) /\ first_row /\ ~first_row'
          /\ header_cells' = Completed /\ column_cells' = << >> /\ last_col' = range.beg.col - 1
          /\ range' = RangeBelow /\ UNCHANGED <<phase, cell_pos>> /\ state' = "SHEETDATA"
          /\ first_row' = FALSE
      BY <2>5 DEF TakeHeader, ReadOn
    <3>2. /\ range'.beg.row = cell_pos.row + 1 /\ range'.beg.col = range.beg.col
          /\ range'.end = range.end /\ range' \in Ranges
      <4>1. cell_pos.row + 1 \in 1 .. MaxRow + 1
        BY <1>2, <2>1
      <4>2. range \in Ranges
        BY <1>1 DEF TypeOK
      <4>3. range' = [range EXCEPT !.beg = [range.beg EXCEPT !.row = cell_pos.row + 1]]
        BY <3>1, <4>2 DEF RangeBelow, Ranges
      <4> QED
        BY <4>1, <4>2, <4>3 DEF Ranges
    <3>3. range.beg.row <= cell_pos.row /\ cell_pos.row < range.end.row /\ range.beg.row = Requested
      BY <1>1, <3>1 DEF InRows, RangeStarts
    <3>4. RangeStarts'
      BY <1>1, <1>4, <3>1, <3>2 DEF RangeStarts, InCols
    <3>5. HeaderTaken'
      <4>1. range'.beg.row - 1 = cell_pos.row
        BY <1>2, <3>2
      <4>2. header_cells' = WholeRow(cell_pos.row)'
        BY <1>3, <2>4, <3>1, <3>2, FixedRange
      <4>3. \A q \in Rows : q < cell_pos.row => q < Requested
        BY <1>2, <1>6, <2>2, <3>3 DEF InRows
      <4> QED
        BY <1>4, <2>1, <3>1, <3>3, <4>1, <4>2, <4>3 DEF HeaderTaken
    <3>6. HeaderSniffed'
      <4>1. \A q \in Rows : Finished(q)' => q < cell_pos.row \/ q = cell_pos.row
        BY <3>1 DEF Finished
      <4>2. \A q \in Rows : (q < cell_pos.row \/ q = cell_pos.row) => ~InRows(range', q)
        <5>1. \A q \in Rows : (q < cell_pos.row \/ q = cell_pos.row) => ~(cell_pos.row + 1 <= q)
          <6>1. PICK here \in Nat : here = cell_pos.row
            BY <1>2
          <6>2. \A q \in Int : (q < here \/ q = here) => ~(here + 1 <= q)
            OBVIOUS
          <6> QED
            BY <1>6, <6>1, <6>2
        <5> QED
          BY <3>2, <5>1 DEF InRows
      <4>3. \A q \in Rows : Finished(q)' => ~InRows(range', q)
        BY <4>1, <4>2
      <4> QED
        BY <1>4, <3>1, <4>3 DEF HeaderSniffed, InRows
    <3>7. TypeOK'
      <4>1. last_col' \in 0 .. MaxCol
        BY <1>2, <3>1
      <4>2. range'.beg.row <= range'.end.row /\ range'.beg.col < range'.end.col
        BY <1>2, <3>2, <3>3
      <4> QED
        <5>1. header_cells' \in Seq(CellRecords)
          BY <2>4, <3>1
        <5>2. column_cells' \in Seq(CellRecords)
          BY <3>1
        <5>3. first_row' \in BOOLEAN /\ state' = "SHEETDATA"
          BY <3>1
        <5> QED
          BY <1>1, <1>3, <3>1, <3>2, <4>1, <4>2, <5>1, <5>2, <5>3 DEF TypeOK, rangeSniffer
    <3> QED
      BY <3>1, <3>4, <3>5, <3>6, <3>7 DEF SniffInv, RangeSniffed, ReadyToResolve, Resolved, Bound
  <2>6. CASE TakeDataRow
    <3>1. /\ InRows(range, cell_pos.row)
          /\ column_cells' = Completed
          /\ header_cells' = IF first_row THEN Completed ELSE header_cells
          /\ phase' = "resolve" /\ state' = "SHEETDATA" /\ cell_pos' = [row |-> 0, col |-> 0]
          /\ UNCHANGED <<range, first_row, last_col>>
      BY <2>6 DEF TakeDataRow, StopAndGoTo
    <3>2. RangeStarts' /\ HeaderTaken'
      BY <1>1, <1>3, <3>1, RangeFrame
    <3>3. ReadyToResolve'
      <4>2. PICK row \in Rows : row = cell_pos.row
        BY <2>1
      <4>3. /\ column_cells' = WholeRow(row) /\ (first_row' => header_cells' = WholeRow(row))
            /\ IsFirstInRange(row)
        BY <2>4, <3>1, <4>2
      <4>4. WholeRow(row)' = WholeRow(row) /\ (IsFirstInRange(row)' <=> IsFirstInRange(row))
        BY <1>3, <1>4, <3>1, FixedRange DEF IsFirstInRange, InRows
      <4> QED
        BY <1>4, <4>3, <4>4 DEF ReadyToResolve
    <3>4. TypeOK'
      <4>1. cell_pos' \in [row : 0 .. MaxRow, col : 0 .. MaxCol]
        BY <1>2, <3>1
      <4> QED
        BY <1>1, <1>3, <2>4, <3>1, <4>1 DEF TypeOK, rangeSniffer
    <3> QED
      BY <3>1, <3>2, <3>3, <3>4 DEF SniffInv, RangeSniffed, HeaderSniffed, Resolved, Bound
  <2> QED
    BY <2>1, <2>3, <2>5, <2>6
<1>14. CASE EndSheetData
  <2>1. /\ state = "SHEETDATA" /\ \A r \in Rows : r <= cell_pos.row
        /\ phase' = "resolve" /\ state' = "SHEETDATA" /\ cell_pos' = [row |-> 0, col |-> 0]
        /\ UNCHANGED headerSniffer
    BY <1>14 DEF EndSheetData, StopAndGoTo
  <2>2. UNCHANGED <<range, first_row, last_col, header_cells, column_cells>>
    BY <2>1 DEF headerSniffer
  <2>3. RangeStarts' /\ HeaderTaken'
    BY <1>1, <1>3, <2>1, <2>2, RangeFrame
  <2>4. ReadyToResolve'
    <3>1. \A r \in Rows : Finished(r)
      BY <1>2, <1>6, <2>1 DEF Finished
    <3>2. \A r \in Rows' : ~InRows(range', r)
      BY <1>1, <1>4, <2>2, <3>1 DEF HeaderSniffed
    <3>3. column_cells' = << >> /\ (first_row' => header_cells' = << >>)
      BY <1>1, <2>1, <2>2 DEF HeaderSniffed
    <3> QED
      BY <3>2, <3>3 DEF ReadyToResolve, InRows
  <2>5. TypeOK'
    <3>1. cell_pos' \in [row : 0 .. MaxRow, col : 0 .. MaxCol]
      BY <1>2, <2>1
    <3> QED
      BY <1>1, <1>3, <2>1, <2>2, <3>1 DEF TypeOK, rangeSniffer
  <2> QED
    BY <2>1, <2>3, <2>4, <2>5 DEF SniffInv, RangeSniffed, HeaderSniffed, Resolved, Bound
<1> QED
  BY <1>11, <1>12, <1>13, <1>14

(* SniffHeader and the steps after it leave what the sniffers found alone.   *)
LEMMA ResolveStep ==
    ASSUME SniffInv, Resolve \/ Fail \/ UNCHANGED vars
    PROVE  SniffInv'
<1>1. /\ TypeOK /\ RangeSniffed /\ RangeStarts /\ HeaderTaken /\ HeaderSniffed /\ ReadyToResolve
      /\ Resolved
  BY DEF SniffInv
<1>2. /\ UNCHANGED <<sheet, opts, parser, rangeSniffer, headerSniffer>>
      /\ \/ phase = "resolve" /\ phase' = "bound" /\ names' = NamesOfHeader
            /\ types' = [i \in DOMAIN DataCells |-> TypeOf(DataCells[i])]
         \/ phase = "resolve" /\ phase' = "failed"
         \/ phase' = phase /\ names' = names /\ types' = types
  BY DEF Resolve, Fail, vars
<1>3. UNCHANGED <<sheet, opts, state, cell_pos, found, beg_col, end_col, range, first_row, last_col,
                  header_cells, column_cells>>
  BY <1>2 DEF parser, rangeSniffer, headerSniffer
<1>4. /\ sheet' = sheet /\ opts' = opts /\ Rows' = Rows
      /\ \A r : NoDataIn(r)' <=> NoDataIn(r)
  BY <1>3, FixedSniff
<1>5. /\ \A row : WholeRow(row)' = WholeRow(row)
      /\ \A row, last : RowCells(row, last)' = RowCells(row, last)
  BY <1>3, FixedRange
<1>6. /\ \A r : Finished(r)' <=> Finished(r)
      /\ \A c : Kind(c)' = Kind(c)
      /\ \A r : IsFirstInRange(r)' <=> IsFirstInRange(r)
  BY <1>3, <1>4 DEF Finished, Kind, IsFirstInRange, InRows
<1>7. RangeStarts' /\ HeaderTaken'
  BY <1>1, <1>2, <1>3, RangeFrame
<1>8. TypeOK'
  BY <1>1, <1>2, <1>3, <1>4 DEF TypeOK
<1>9. RangeSniffed'
  BY <1>1, <1>2, <1>3, <1>4, <1>6 DEF RangeSniffed
<1>10. HeaderSniffed'
  <2>1. RowCells(cell_pos.row, last_col)' = RowCells(cell_pos.row, last_col)
    BY <1>3, FixedSniff DEF RowCells, CellAt
  <2> QED
    BY <1>1, <1>2, <1>3, <1>4, <1>6, <2>1 DEF HeaderSniffed, InRows, InCols
<1>11. ReadyToResolve'
  BY <1>1, <1>2, <1>3, <1>4, <1>5, <1>6 DEF ReadyToResolve, InRows
<1>12. Resolved'
  <2>1. HeaderCells' = HeaderCells
    BY <1>3 DEF HeaderCells, Padding, CellAt
  <2>2. NamesOfHeader' = NamesOfHeader
    BY <1>3, <2>1 DEF NamesOfHeader, NameOf
  <2>3. DataCells' = DataCells
    BY <1>3, <2>1 DEF DataCells
  <2>4. \A cell : TypeOf(cell)' = TypeOf(cell)
    BY <1>3 DEF TypeOf, DuckDBType, CellType
  <2>5. [i \in DOMAIN DataCells |-> TypeOf(DataCells[i])]' = [i \in DOMAIN DataCells |-> TypeOf(DataCells[i])]
    BY <2>3, <2>4
  <2> QED
    BY <1>1, <1>2, <2>2, <2>5 DEF Resolved, Bound
<1> QED
  BY <1>7, <1>8, <1>9, <1>10, <1>11, <1>12 DEF SniffInv

LEMMA SniffStep == SniffInv /\ [Next]_vars => SniffInv'
<1> SUFFICES ASSUME SniffInv, [Next]_vars PROVE SniffInv'
  OBVIOUS
<1>1. CASE BeginRow \/ Cell \/ EndRow \/ EndSheetData
  <2>1. phase \in {"range", "header"}
    BY <1>1 DEF BeginRow, Cell, EndRow, EndSheetData, Sniffing
  <2> QED
    BY <1>1, <2>1, RangeStep, HeaderStep
<1>2. CASE Resolve \/ Fail \/ UNCHANGED vars
  BY <1>2, ResolveStep
<1> QED
  BY <1>1, <1>2 DEF Next, Terminated

LEMMA SniffInit == Init => SniffInv
<1> SUFFICES ASSUME Init PROVE SniffInv
  OBVIOUS
<1>1. /\ MaxRow \in Nat \ {0} /\ MaxCol \in Nat \ {0, 1} /\ Requests \subseteq Options
      /\ opts \in Requests
      /\ IF opts.has_explicit_range THEN IsRange(opts.range) ELSE opts.range = WholeSheet
  BY SniffAssumption DEF Init
<1>2. opts.range \in Ranges /\ opts.has_explicit_range \in BOOLEAN
  BY <1>1 DEF Options
<1>3. range.beg.row <= range.end.row /\ range.beg.col < range.end.col
  <2>1. IsRange(opts.range)
    <3>1. IsRange(WholeSheet)
      BY <1>1 DEF IsRange, WholeSheet
    <3> QED
      BY <1>1, <3>1
  <2>2. range = opts.range /\ range.beg.row \in Int /\ range.end.row \in Int
    BY <1>2 DEF Init, Ranges
  <2> QED
    BY <2>1, <2>2 DEF IsRange
<1>4. TypeOK
  <2>1. cell_pos \in [row : 0 .. MaxRow, col : 0 .. MaxCol] /\ 0 \in 0 .. MaxCol
    BY <1>1 DEF Init
  <2>2. << >> \in Seq(CellRecords)
    OBVIOUS
  <2> QED
    BY <1>1, <1>2, <1>3, <2>1, <2>2 DEF Init, TypeOK
<1>5. \A r \in Rows : ~Finished(r)
  <2>1. cell_pos.row = 0 /\ \A r \in Rows : r \in 1 .. MaxRow
    BY <1>4, SniffFacts DEF Init
  <2> QED
    BY <2>1 DEF Finished
<1>6. RangeSniffed
  <2>1. phase = "range" => ~opts.has_explicit_range
    BY DEF Init
  <2> QED
    BY <1>1, <1>5, <2>1 DEF Init, RangeSniffed
<1>7. RangeStarts
  <2> SUFFICES ASSUME opts.has_explicit_range PROVE RangeStarts
    BY <1>2 DEF Init, RangeStarts
  <2>1. Requested = opts.range.beg.row
    BY DEF Requested
  <2> QED
    BY <2>1 DEF Init, RangeStarts
<1>8. HeaderTaken /\ HeaderSniffed /\ ReadyToResolve /\ Resolved
  BY <1>2, <1>5 DEF Init, HeaderTaken, HeaderSniffed, ReadyToResolve, Resolved, Bound
<1> QED
  BY <1>4, <1>6, <1>7, <1>8 DEF SniffInv

(* At every callback of either sniffer the range, the header and the cells   *)
(* collected describe the rows the sniffer has passed.                       *)
THEOREM SniffCorrect == Spec => []SniffInv
  BY SniffInit, SniffStep, PTL DEF Spec

-----------------------------------------------------------------------------
(* What SniffHeader starts from when it succeeds, and what it makes of it.   *)
LEMMA BoundFacts ==
    ASSUME SniffInv, Bound
    PROVE  /\ Width(range) \in Nat \ {0}
           /\ HeaderCells \in Seq(CellRecords) /\ Len(HeaderCells) = Width(range)
           /\ \A i \in 1 .. Width(range) : HeaderCells[i].col = range.beg.col + i - 1
           /\ ~first_row => /\ header_cells # << >>
                            /\ \A i \in 1 .. Width(range) : HeaderCells[i].row = range.beg.row - 1
           /\ DOMAIN DataCells = 1 .. Width(range)
           /\ \/ /\ \A row \in Rows : ~InRows(range, row)
                 /\ \A i \in 1 .. Width(range) : DataCells[i].kind = "padding"
              \/ \E row \in Rows :
                   /\ IsFirstInRange(row)
                   /\ \A i \in 1 .. Width(range) :
                        DataCells[i].kind = KindRead(row, range.beg.col + i - 1)
<1>1. TypeOK /\ HeaderTaken /\ ReadyToResolve /\ phase = "bound"
  BY DEF SniffInv, Bound
<1>2. /\ range.beg.col \in 1 .. MaxCol /\ range.end.col \in 1 .. MaxCol + 1 /\ MaxCol \in Nat
      /\ range.beg.col < range.end.col /\ range.beg.row \in 1 .. MaxRow + 1 /\ MaxRow \in Nat \ {0}
  BY <1>1, SniffFacts
<1>3. /\ Width(range) \in Nat \ {0} /\ Width(range) = range.end.col - range.beg.col
      /\ \A i \in 1 .. Width(range) : range.beg.col + i - 1 \in Cols
  BY <1>2 DEF Width, Cols
<1>4. ASSUME NEW row \in Rows
      PROVE  /\ WholeRow(row) \in Seq(CellRecords) /\ Len(WholeRow(row)) = Width(range)
             /\ WholeRow(row) # << >>
             /\ \A i \in 1 .. Width(range) :
                  WholeRow(row)[i] = CellAt(KindRead(row, range.beg.col + i - 1), row, range.beg.col + i - 1)
  <2>1. /\ range.end.col - 1 \in Int /\ range.beg.col - 1 <= range.end.col - 1
        /\ range.end.col - 1 < range.end.col
        /\ range.end.col - 1 - range.beg.col + 1 = Width(range)
    BY <1>2, <1>3
  <2>2. /\ WholeRow(row) \in Seq(CellRecords) /\ Len(WholeRow(row)) = Width(range)
        /\ \A i \in 1 .. Width(range) :
             WholeRow(row)[i] = CellAt(KindRead(row, range.beg.col + i - 1), row, range.beg.col + i - 1)
    BY <1>1, <2>1, RowCellsFacts DEF WholeRow
  <2>3. WholeRow(row) # << >>
    <3>1. Len(<< >>) = 0
      OBVIOUS
    <3> QED
      BY <1>3, <2>2, <3>1
  <2> QED
    BY <2>2, <2>3
<1>5. /\ header_cells = << >> \/ \E row \in Rows : header_cells = WholeRow(row)
      /\ ~first_row => \E row \in Rows : row = range.beg.row - 1 /\ header_cells = WholeRow(row)
  BY <1>1 DEF HeaderTaken, ReadyToResolve, TypeOK
<1>6. /\ HeaderCells \in Seq(CellRecords) /\ Len(HeaderCells) = Width(range)
      /\ \A i \in 1 .. Width(range) : HeaderCells[i].col = range.beg.col + i - 1
  <2>1. CASE header_cells = << >>
    <3>1. HeaderCells = [i \in 1 .. Width(range) |->
                           CellAt("padding", range.beg.row, range.beg.col + i - 1)]
      <4>1. /\ range.beg.col \in Int /\ range.end.col \in Int /\ range.beg.col <= range.end.col
            /\ Width(range) = range.end.col - range.beg.col
        BY <1>2, <1>3
      <4>2. Padding(range.beg.col, range.end.col, range.beg.row)
            = [i \in 1 .. Width(range) |-> CellAt("padding", range.beg.row, range.beg.col + i - 1)]
        BY <4>1, PaddingFacts
      <4> QED
        BY <2>1, <4>2 DEF HeaderCells
    <3>2. \A c \in Cols : CellAt("padding", range.beg.row, c) \in CellRecords
      BY <1>2 DEF CellAt, CellRecords
    <3> QED
      BY <1>3, <3>1, <3>2 DEF CellAt
  <2>2. CASE header_cells # << >>
    <3>1. PICK row \in Rows : header_cells = WholeRow(row)
      BY <1>5, <2>2
    <3>2. HeaderCells = WholeRow(row)
      BY <2>2, <3>1 DEF HeaderCells
    <3>3. WholeRow(row) \in Seq(CellRecords) /\ Len(WholeRow(row)) = Width(range)
      BY <1>4
    <3>4. ASSUME NEW i \in 1 .. Width(range)
          PROVE  WholeRow(row)[i].col = range.beg.col + i - 1
      <4>1. WholeRow(row)[i] = CellAt(KindRead(row, range.beg.col + i - 1), row, range.beg.col + i - 1)
        BY <1>4
      <4> QED
        BY <4>1 DEF CellAt
    <3> QED
      BY <3>2, <3>3, <3>4
  <2> QED
    BY <2>1, <2>2
<1>7. ~first_row => /\ header_cells # << >>
                    /\ \A i \in 1 .. Width(range) : HeaderCells[i].row = range.beg.row - 1
  <2> SUFFICES ASSUME ~first_row
               PROVE  /\ header_cells # << >>
                      /\ \A i \in 1 .. Width(range) : HeaderCells[i].row = range.beg.row - 1
    OBVIOUS
  <2>1. PICK row \in Rows : row = range.beg.row - 1 /\ header_cells = WholeRow(row)
    BY <1>5
  <2>2. header_cells # << >> /\ HeaderCells = WholeRow(row)
    BY <1>4, <2>1 DEF HeaderCells
  <2>3. ASSUME NEW i \in 1 .. Width(range) PROVE HeaderCells[i].row = row
    <3>1. WholeRow(row)[i] = CellAt(KindRead(row, range.beg.col + i - 1), row, range.beg.col + i - 1)
      BY <1>4
    <3> QED
      BY <2>2, <3>1 DEF CellAt
  <2> QED
    BY <2>1, <2>2, <2>3
<1>8. CASE column_cells = << >>
  <2>1. \A row \in Rows : ~InRows(range, row)
    BY <1>1, <1>4, <1>8 DEF ReadyToResolve
  <2>2. DOMAIN HeaderCells = 1 .. Width(range)
    BY <1>6
  <2>3. DataCells = [i \in 1 .. Width(range) |-> [HeaderCells[i] EXCEPT !.kind = "padding"]]
    BY <1>8, <2>2 DEF DataCells
  <2>4. \A i \in 1 .. Width(range) : HeaderCells[i] \in CellRecords
    BY <1>6
  <2>5. \A i \in 1 .. Width(range) : DataCells[i].kind = "padding"
    BY <2>3, <2>4 DEF CellRecords
  <2> QED
    BY <1>3, <1>6, <1>7, <2>1, <2>3, <2>5
<1>9. CASE column_cells # << >>
  <2>1. PICK row \in Rows : IsFirstInRange(row) /\ column_cells = WholeRow(row)
    BY <1>1, <1>9 DEF ReadyToResolve
  <2>2. DataCells = WholeRow(row)
    BY <1>9, <2>1 DEF DataCells
  <2>3. DOMAIN DataCells = 1 .. Width(range)
    BY <1>4, <2>2
  <2>4. ASSUME NEW i \in 1 .. Width(range)
        PROVE  DataCells[i].kind = KindRead(row, range.beg.col + i - 1)
    <3>1. row \in Rows
      BY <2>1 DEF IsFirstInRange
    <3>2. WholeRow(row)[i] = CellAt(KindRead(row, range.beg.col + i - 1), row, range.beg.col + i - 1)
      BY <1>4, <3>1
    <3> QED
      BY <2>2, <3>2 DEF CellAt
  <2> QED
    BY <1>3, <1>6, <1>7, <2>1, <2>3, <2>4
<1> QED
  BY <1>8, <1>9

(* Where the columns of the range come from when the query gives none.       *)
LEMMA SniffedColumns ==
    ASSUME SniffInv, Sniffed
    PROVE  /\ HasData(sheet[Requested][range.beg.col]) /\ HasData(sheet[Requested][range.end.col - 1])
           /\ \A c \in FirstRun(Requested) : InCols(range, c)
<1>1. /\ TypeOK /\ RangeStarts /\ phase = "bound" /\ ~opts.has_explicit_range /\ ~NoDataAtAll
  BY DEF SniffInv, Sniffed, Bound, NoDataAtAll, NoDataIn
<1>2. /\ range.beg.col \in Cols /\ range.end.col \in 1 .. MaxCol + 1 /\ MaxCol \in Nat
      /\ range.beg.col < range.end.col
  BY <1>1, SniffFacts DEF Cols
<1>3. /\ \A c \in Cols : c < range.beg.col => ~HasData(sheet[Requested][c])
      /\ HasData(sheet[Requested][range.beg.col])
      /\ HasData(sheet[Requested][range.end.col - 1])
      /\ range.end.col \in Cols => ~HasData(sheet[Requested][range.end.col])
  BY <1>1 DEF RangeStarts
<1> DEFINE filled == {c \in Cols : HasData(sheet[Requested][c])}
           first  == CHOOSE c \in filled : \A d \in filled : c <= d
<1>4. first = range.beg.col
  <2>1. range.beg.col \in filled
    BY <1>2, <1>3
  <2>2. \A d \in filled : d \in Int /\ range.beg.col <= d
    BY <1>2, <1>3 DEF Cols
  <2>3. first \in filled /\ \A d \in filled : first <= d
    <3> HIDE DEF filled
    <3> QED
      BY <2>1, <2>2
  <2>4. first \in Int /\ first <= range.beg.col /\ range.beg.col <= first
    <3> HIDE DEF first, filled
    <3> QED
      BY <2>1, <2>2, <2>3
  <2> HIDE DEF first, filled
  <2>5. range.beg.col \in Int
    BY <1>2 DEF Cols
  <2> QED
    BY <2>4, <2>5
<1>5. ASSUME NEW c \in FirstRun(Requested) PROVE InCols(range, c)
  <2>1. c \in filled /\ \A d \in first .. c : d \in filled
    BY <1>5 DEF FirstRun
  <2>2. c \in Cols /\ c \in Int /\ range.beg.col \in Int /\ range.end.col \in Int /\ range.beg.col <= c
    BY <1>2, <1>3, <2>1 DEF Cols
  <2>3. CASE c < range.end.col
    BY <2>2, <2>3 DEF InCols
  <2>4. CASE ~(c < range.end.col)
    <3>1. range.end.col \in range.beg.col .. c /\ range.end.col \in Cols
      BY <1>2, <2>2, <2>4 DEF Cols
    <3>2. range.end.col \in filled
      BY <1>4, <2>1, <3>1
    <3> QED
      BY <1>3, <3>1, <3>2
  <2> QED
    BY <2>3, <2>4
<1> QED
  BY <1>3, <1>5

(* The names that come out of the header, and the types of the row below.    *)
LEMMA NamesAndTypes ==
    ASSUME SniffInv, Bound
    PROVE  /\ DOMAIN names = 1 .. Width(range) /\ Len(names) = Width(range)
           /\ DOMAIN types = 1 .. Width(range) /\ Len(types) = Width(range)
           /\ \A i \in 1 .. Width(range) : /\ names[i].col = range.beg.col + i - 1
                                           /\ types[i].source = CellType(DataCells[i].kind)
           /\ ~first_row => \A i \in 1 .. Width(range) :
                               names[i].from = "cell" /\ names[i].row = range.beg.row - 1
<1>1. names = NamesOfHeader /\ types = [i \in DOMAIN DataCells |-> TypeOf(DataCells[i])]
  BY DEF SniffInv, Resolved
<1>2. /\ Width(range) \in Nat
      /\ HeaderCells \in Seq(CellRecords) /\ Len(HeaderCells) = Width(range)
      /\ \A i \in 1 .. Width(range) : HeaderCells[i].col = range.beg.col + i - 1
      /\ ~first_row => /\ header_cells # << >>
                       /\ \A i \in 1 .. Width(range) : HeaderCells[i].row = range.beg.row - 1
      /\ DOMAIN DataCells = 1 .. Width(range)
  BY BoundFacts
<1>3. DOMAIN HeaderCells = 1 .. Width(range)
  BY <1>2
<1>4. /\ DOMAIN names = 1 .. Width(range)
      /\ \A i \in 1 .. Width(range) : /\ names[i].col = HeaderCells[i].col
                                      /\ names[i].row = HeaderCells[i].row
                                      /\ header_cells # << >> => names[i] = NameOf(HeaderCells[i])
  BY <1>1, <1>3 DEF NamesOfHeader, NameOf
<1>5. types = [i \in 1 .. Width(range) |-> TypeOf(DataCells[i])]
  BY <1>1, <1>2
<1>6. /\ DOMAIN types = 1 .. Width(range) /\ Len(types) = Width(range)
      /\ \A i \in 1 .. Width(range) : types[i].source = CellType(DataCells[i].kind)
  BY <1>2, <1>5 DEF TypeOf
<1>7. Len(names) = Width(range)
  <2>1. names = [i \in 1 .. Width(range) |-> names[i]]
    BY <1>1, <1>3 DEF NamesOfHeader
  <2> QED
    BY <1>2, <2>1
<1>8. ~first_row => \A i \in 1 .. Width(range) : names[i].from = "cell"
  <2> SUFFICES ASSUME ~first_row, NEW i \in 1 .. Width(range) PROVE names[i].from = "cell"
    OBVIOUS
  <2>1. names[i] = NameOf(HeaderCells[i])
    BY <1>2, <1>4
  <2>2. NameOf(HeaderCells[i]).from = "cell"
    BY DEF NameOf
  <2> QED
    BY <2>1, <2>2
<1> QED
  BY <1>2, <1>4, <1>6, <1>7, <1>8

-----------------------------------------------------------------------------
(* The names, the types and the columns the scan reads are the same columns, *)
(* and a sniffed range holds the first run of data of the first row with any:*)
(* RangeSniffer, HeaderSniffer's padding and SniffHeader agree on every one. *)
THEOREM ColumnsAlwaysAgree == Spec => []ColumnsAgree
<1>1. SniffInv => ColumnsAgree
  <2> SUFFICES ASSUME SniffInv, Bound
               PROVE  /\ Len(names) = Width(range) /\ Len(types) = Width(range)
                      /\ \A i \in DOMAIN names : names[i].col = range.beg.col + i - 1
                      /\ Sniffed => /\ \A c \in FirstRun(Requested) : InCols(range, c)
                                    /\ HasData(sheet[Requested][range.beg.col])
                                    /\ HasData(sheet[Requested][range.end.col - 1])
    BY DEF ColumnsAgree
  <2> QED
    BY NamesAndTypes, SniffedColumns
<1> QED
  BY <1>1, SniffCorrect, PTL

(* The row that gave its name to the columns is not scanned, and no row with *)
(* data is lost between it and the scan.                                     *)
THEOREM HeaderIsNeverData == Spec => []HeaderIsNotData
<1>1. SniffInv => HeaderIsNotData
  <2> SUFFICES ASSUME SniffInv, Bound
               PROVE  HeaderIsNotData
    BY DEF HeaderIsNotData
  <2>1. RangeStarts /\ HeaderTaken /\ phase = "bound"
    BY DEF SniffInv, Bound
  <2>2. CASE first_row
    BY <2>1, <2>2 DEF HeaderIsNotData, HasHeader, RangeStarts
  <2>3. CASE ~first_row
    <3>1. /\ range.beg.row - 1 \in Rows
          /\ \A q \in Rows : q < range.beg.row - 1 => q < Requested
      BY <2>1, <2>3 DEF HeaderTaken
    <3>2. \A i \in DOMAIN names : names[i].from = "cell" /\ names[i].row = range.beg.row - 1
      BY <2>3, NamesAndTypes
    <3> QED
      BY <2>3, <3>1, <3>2 DEF HeaderIsNotData, HasHeader
  <2> QED
    BY <2>2, <2>3
<1> QED
  BY <1>1, SniffCorrect, PTL

(* The types are those of the first row the scan will read, or the default.  *)
THEOREM TypesAlwaysDescribeData == Spec => []TypesDescribeData
<1>1. SniffInv => TypesDescribeData
  <2> SUFFICES ASSUME SniffInv, Bound, NEW i \in DOMAIN types
               PROVE  LET rows == {r \in Rows : InRows(range, r)}
                          col  == range.beg.col + i - 1
                      IN  IF rows = {} THEN types[i].source = opts.default_cell_type
                          ELSE \E r \in rows : /\ \A q \in rows : r <= q
                                               /\ types[i].source = CellType(KindRead(r, col))
    BY DEF TypesDescribeData
  <2> DEFINE rows == {r \in Rows : InRows(range, r)}
  <2>1. i \in 1 .. Width(range) /\ types[i].source = CellType(DataCells[i].kind)
    BY NamesAndTypes
  <2>2. \/ (\A row \in Rows : ~InRows(range, row)) /\ DataCells[i].kind = "padding"
        \/ \E row \in Rows : IsFirstInRange(row) /\ DataCells[i].kind = KindRead(row, range.beg.col + i - 1)
    BY <2>1, BoundFacts
  <2>3. CASE (\A row \in Rows : ~InRows(range, row)) /\ DataCells[i].kind = "padding"
    <3>1. rows = {} /\ types[i].source = opts.default_cell_type
      BY <2>1, <2>3 DEF CellType
    <3> QED
      BY <3>1
  <2>4. CASE \E row \in Rows : IsFirstInRange(row) /\ DataCells[i].kind = KindRead(row, range.beg.col + i - 1)
    <3>1. PICK row \in Rows : IsFirstInRange(row) /\ DataCells[i].kind = KindRead(row, range.beg.col + i - 1)
      BY <2>4
    <3>2. row \in rows /\ \A q \in rows : row <= q
      BY <3>1 DEF IsFirstInRange
    <3> QED
      BY <2>1, <3>1, <3>2
  <2> QED
    BY <2>2, <2>3, <2>4
<1> QED
  BY <1>1, SniffCorrect, PTL

(* Bind hands SheetScan a range it can start from, open at the end unless    *)
(* the query closed it.                                                      *)
THEOREM ScanCanAlwaysStart == Spec => []ScanCanStart
<1>1. SniffInv => ScanCanStart
  <2> SUFFICES ASSUME SniffInv, Bound
               PROVE  /\ range.beg.row <= range.end.row /\ range.beg.col < range.end.col
                      /\ ~opts.has_explicit_range =>
                           /\ range.end.row = MaxRow + 1
                           /\ range.beg.row = 1 \/ range.beg.row \in Rows \/ range.beg.row - 1 \in Rows
    BY DEF ScanCanStart
  <2>1. TypeOK /\ RangeStarts /\ HeaderTaken /\ phase = "bound"
    BY DEF SniffInv, Bound
  <2>2. range.beg.row <= range.end.row /\ range.beg.col < range.end.col
    BY <2>1, SniffFacts
  <2>3. ASSUME ~opts.has_explicit_range
        PROVE  /\ range.end.row = MaxRow + 1
               /\ range.beg.row = 1 \/ range.beg.row \in Rows \/ range.beg.row - 1 \in Rows
    <3>1. range.end.row = MaxRow + 1 /\ (first_row => range.beg.row = Requested)
      BY <2>1, <2>3 DEF RangeStarts
    <3>2. Requested = 1 \/ Requested \in Rows
      BY <2>1, <2>3, RequestedFacts
    <3>3. ~first_row => range.beg.row - 1 \in Rows
      BY <2>1 DEF HeaderTaken
    <3> QED
      BY <3>1, <3>2, <3>3
  <2> QED
    BY <2>2, <2>3
<1> QED
  BY <1>1, SniffCorrect, PTL
=============================================================================
