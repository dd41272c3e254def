----------------------------- MODULE ScanProofs -----------------------------
(***************************************************************************)
(* Proofs about the streaming scan, for every worksheet, range, vector     *)
(* size and way the entry is cut into blocks: the parser, the loop and the *)
(* chunk first, then the data, then the refinement of TableScan.           *)
(***************************************************************************)
EXTENDS ScanProperties, OperatorProofs, TLAPS

(* What the choice of a worksheet and a range says about rows and columns.   *)
LEMMA SheetFacts ==
    ASSUME TypeOK
    PROVE  /\ Rows \subseteq 1 .. MaxRow
           /\ \A r \in Rows : sheet[r] \in RowElements
           /\ range.beg.row \in 1 .. MaxRow + 1 /\ range.end.row \in 1 .. MaxRow + 1
           /\ range.beg.row <= range.end.row
           /\ range.beg.col \in Cols /\ range.end.col \in 2 .. MaxCol + 1
           /\ range.beg.col < range.end.col
           /\ RangeCols = range.beg.col .. range.end.col - 1
           /\ MaxRow \in Nat \ {0} /\ MaxCol \in Nat \ {0} /\ VectorSize \in Nat \ {0}
<1>1. /\ MaxRow \in Nat \ {0} /\ MaxCol \in Nat \ {0} /\ VectorSize \in Nat \ {0}
      /\ RowShapes \subseteq RowElements
  BY ScanAssumption
<1>2. PICK rows \in SUBSET (1 .. MaxRow) : sheet \in [rows -> RowShapes]
  BY DEF TypeOK, Worksheets
<1>3. Rows = rows
  BY <1>2 DEF Rows
<1>4. range \in Ranges
  BY DEF TypeOK
<1>5. /\ range.beg.row \in 1 .. MaxRow + 1 /\ range.end.row \in 1 .. MaxRow + 1
      /\ range.beg.row <= range.end.row
      /\ range.beg.col \in Cols /\ range.end.col \in 2 .. MaxCol + 1
      /\ range.beg.col < range.end.col
  BY <1>4 DEF Ranges
<1>6. RangeCols = range.beg.col .. range.end.col - 1
  BY <1>1, <1>5 DEF RangeCols, ContainsCol, Cols
<1> QED
  BY <1>1, <1>2, <1>3, <1>5, <1>6

(* The worksheet, the range and the options never change, and with them the  *)
(* operators that depend on nothing else.                                    *)
LEMMA FixedFacts ==
    ASSUME UNCHANGED fixedVars
    PROVE  /\ Rows' = Rows /\ RangeCols' = RangeCols /\ NullRow' = NullRow /\ StaleRow' = StaleRow
           /\ sheet' = sheet /\ range' = range /\ opts' = opts
           /\ \A r : ContainsRow(r)' <=> ContainsRow(r)
<1>1. sheet' = sheet /\ range' = range /\ opts' = opts
  BY DEF fixedVars
<1>2. RangeCols' = RangeCols
  BY <1>1 DEF RangeCols, ContainsCol
<1> QED
  BY <1>1, <1>2 DEF Rows, NullRow, StaleRow, ContainsRow

LEMMA CoreStep == CoreInv /\ [Next]_vars => CoreInv'
<1> SUFFICES ASSUME CoreInv, [Next]_vars PROVE CoreInv'
  OBVIOUS
<1>1. TypeOK /\ SlotsCounted /\ RowBounds /\ LoopStatus
  BY DEF CoreInv
<1>2. SlotsCounted /\ RowBounds /\ LoopStatus
  BY <1>1
<1>21. /\ range.beg.row - 1 <= last_row /\ last_row < range.end.row
       /\ curr_row = range.beg.row \/ ContainsRow(curr_row)
       /\ range.beg.col - 1 <= last_col /\ last_col < range.end.col
       /\ state = "ROW" => cell_pos.row \in Rows
  BY <1>2 DEF RowBounds
<1>3. /\ size \in 0 .. VectorSize /\ out_index \in 0 .. VectorSize - 1
      /\ last_col \in 0 .. MaxCol /\ last_row \in 0 .. MaxRow /\ curr_row \in 1 .. MaxRow + 1
      /\ cell_pos.row \in 0 .. MaxRow /\ cell_pos.col \in 0 .. MaxCol
      /\ blocks_left \in 0 .. MaxBlocks /\ MaxBlocks \in Nat \ {0}
  BY <1>1, ScanAssumption DEF TypeOK, Slots
<1>4. /\ range.beg.row \in 1 .. MaxRow + 1 /\ range.end.row \in 1 .. MaxRow + 1
      /\ range.beg.row <= range.end.row
      /\ range.beg.col \in 1 .. MaxCol /\ range.end.col \in 2 .. MaxCol + 1
      /\ range.beg.col < range.end.col
      /\ MaxRow \in Nat \ {0} /\ MaxCol \in Nat \ {0} /\ VectorSize \in Nat \ {0}
  BY <1>1, SheetFacts DEF Cols
<1>5. /\ Null \in Value(ChunkKinds) /\ Stale \in Value(ChunkKinds)
      /\ NullRow \in [RangeCols -> Value(ChunkKinds)]
      /\ StaleRow \in [RangeCols -> Value(ChunkKinds)]
  BY <1>4 DEF Null, Stale, NullRow, StaleRow, Value, ChunkKinds
<1>6. /\ Rows \subseteq 1 .. MaxRow
      /\ \A r \in Rows : sheet[r] \in RowElements
  BY <1>1, SheetFacts
<1>31. /\ sheet \in Worksheets /\ range \in Ranges /\ opts \in Options
       /\ status \in {"OK", "SUSPENDED", "ABORTED"} /\ xml \in {"OK", "SUSPENDED", "ABORTED"}
       /\ state \in {"SHEETDATA", "ROW"}
       /\ cell_pos \in [row : 0 .. MaxRow, col : 0 .. MaxCol]
       /\ chunk \in [Slots -> [RangeCols -> Value(ChunkKinds)]]
       /\ sheet_row_number \in [Slots -> 0 .. MaxRow]
       /\ out_index \in Slots
       /\ is_row_empty \in BOOLEAN
       /\ pc \in {"idle", "loop", "parse", "fill", "cast", "done", "failed"}
       /\ output \in Seq([RangeCols -> Value(ChunkKinds)])
       /\ error \in [row : 0 .. MaxRow, col : 0 .. MaxCol]
  BY <1>1 DEF TypeOK
<1>7. CASE Call
  <2>0. /\ Rows' = Rows /\ RangeCols' = RangeCols
        /\ sheet' = sheet /\ range' = range /\ opts' = opts
    BY <1>7, FixedFacts DEF Call
  <2>5. chunk' \in [Slots -> [RangeCols -> Value(ChunkKinds)]]
    BY <1>5, <1>7 DEF Call
  <2>1. TypeOK'
    BY <1>3, <1>4, <1>31, <1>7, <2>0, <2>5 DEF TypeOK, Call
  <2>2. SlotsCounted'
    BY <1>2, <1>3, <1>4, <1>7, <2>0 DEF Call, SlotsCounted, LoopStatus, Live, Filling, IsDone
  <2>3. RowBounds'
    BY <1>2, <1>3, <1>4, <1>7, <2>0 DEF Call, RowBounds, ContainsRow
  <2>4. LoopStatus'
    BY <1>2, <1>3, <1>4, <1>7, <2>0 DEF Call, LoopStatus, SlotsCounted, Filling, IsDone, Live
  <2> QED
    BY <2>1, <2>2, <2>3, <2>4 DEF CoreInv
<1>8. CASE SkipRows
  <2>0. /\ Rows' = Rows /\ RangeCols' = RangeCols
        /\ sheet' = sheet /\ range' = range /\ opts' = opts
    BY <1>8, FixedFacts DEF SkipRows
  <2>5. /\ SkippedRows \in Nat /\ SkippedRows <= VectorSize - out_index
        /\ SkippedRows <= curr_row - 1 - last_row
    BY <1>2, <1>3, <1>4, <1>8 DEF SkipRows, SkippedRows, Lesser, FoundSkippedRow
  <2>6. ContainsRow(curr_row)
    BY <1>2, <1>3, <1>4, <1>8 DEF SkipRows, FoundSkippedRow, RowBounds
  <2>7. chunk' \in [Slots -> [RangeCols -> Value(ChunkKinds)]]
    BY <1>3, <1>5, <1>31, <1>8 DEF SkipRows, PutNullRows
  <2>8. sheet_row_number' \in [Slots -> 0 .. MaxRow]
    <3>1. \A s \in Slots : (out_index <= s /\ s < out_index + SkippedRows) =>
             last_row + 1 + (s - out_index) \in 0 .. MaxRow
      BY <1>21, <1>3, <1>4, <2>5, <2>6 DEF Slots, ContainsRow
    <3> QED
      BY <1>31, <1>8, <3>1 DEF SkipRows, MapRows
  <2>9. /\ last_row' \in 0 .. MaxRow /\ last_row' < range.end.row
        /\ range.beg.row - 1 <= last_row'
        /\ size' \in 0 .. VectorSize /\ out_index' \in Slots
    BY <1>21, <1>3, <1>4, <1>8, <2>5, <2>6 DEF SkipRows, Slots, ContainsRow
  <2>1. TypeOK'
    BY <1>3, <1>4, <1>31, <1>8, <2>0, <2>7, <2>8, <2>9 DEF TypeOK, SkipRows
  <2>2. SlotsCounted'
    BY <1>2, <1>3, <1>4, <1>8, <2>0 DEF SkipRows, SlotsCounted, LoopStatus, Live, Filling, IsDone
  <2>3. RowBounds'
    BY <1>21, <1>8, <2>0, <2>9 DEF SkipRows, RowBounds, ContainsRow
  <2>4. LoopStatus'
    BY <1>2, <1>3, <1>4, <1>8, <2>0 DEF SkipRows, LoopStatus, SlotsCounted, Filling, IsDone, Live
  <2> QED
    BY <2>1, <2>2, <2>3, <2>4 DEF CoreInv
<1>9. CASE StopAtSkippedRow
  <2>0. /\ Rows' = Rows /\ RangeCols' = RangeCols
        /\ sheet' = sheet /\ range' = range /\ opts' = opts
    BY <1>9, FixedFacts DEF StopAtSkippedRow
  <2>1. TypeOK'
    BY <1>3, <1>5, <1>9, <2>0, <1>31 DEF TypeOK, StopAtSkippedRow, parserVars, Slots
  <2>2. SlotsCounted'
    BY <1>2, <1>3, <1>4, <1>9, <2>0 DEF StopAtSkippedRow, parserVars, SlotsCounted, LoopStatus, Live, Filling, IsDone
  <2>3. RowBounds'
    BY <1>2, <1>3, <1>4, <1>9, <2>0 DEF StopAtSkippedRow, parserVars, RowBounds, ContainsRow
  <2>4. LoopStatus'
    BY <1>2, <1>3, <1>4, <1>9, <2>0 DEF StopAtSkippedRow, parserVars, LoopStatus, SlotsCounted, Filling, IsDone, Live
  <2> QED
    BY <2>1, <2>2, <2>3, <2>4 DEF CoreInv
<1>10. CASE Resume
  <2>0. /\ Rows' = Rows /\ RangeCols' = RangeCols
        /\ sheet' = sheet /\ range' = range /\ opts' = opts
    BY <1>10, FixedFacts DEF Resume
  <2>1. TypeOK'
    BY <1>3, <1>5, <1>10, <2>0, <1>31 DEF TypeOK, Resume, Slots
  <2>2. SlotsCounted'
    BY <1>2, <1>3, <1>4, <1>10, <2>0 DEF Resume, SlotsCounted, LoopStatus, Live, Filling, IsDone
  <2>3. RowBounds'
    BY <1>2, <1>3, <1>4, <1>10, <2>0 DEF Resume, RowBounds, ContainsRow
  <2>4. LoopStatus'
    BY <1>2, <1>3, <1>4, <1>10, <2>0 DEF Resume, LoopStatus, SlotsCounted, Filling, IsDone, Live
  <2> QED
    BY <2>1, <2>2, <2>3, <2>4 DEF CoreInv
<1>11. CASE ReadBlock
  <2>0. /\ Rows' = Rows /\ RangeCols' = RangeCols
        /\ sheet' = sheet /\ range' = range /\ opts' = opts
    BY <1>11, FixedFacts DEF ReadBlock
  <2>1. TypeOK'
    BY <1>3, <1>5, <1>11, <2>0, <1>31 DEF TypeOK, ReadBlock, parserVars, IsDone, Slots
  <2>2. SlotsCounted'
    BY <1>2, <1>3, <1>4, <1>11, <2>0 DEF ReadBlock, parserVars, IsDone, SlotsCounted, LoopStatus, Live, Filling, IsDone
  <2>3. RowBounds'
    BY <1>2, <1>3, <1>4, <1>11, <2>0 DEF ReadBlock, parserVars, IsDone, RowBounds, ContainsRow
  <2>4. LoopStatus'
    BY <1>2, <1>3, <1>4, <1>11, <2>0 DEF ReadBlock, parserVars, IsDone, LoopStatus, SlotsCounted, Filling, IsDone, Live
  <2> QED
    BY <2>1, <2>2, <2>3, <2>4 DEF CoreInv
<1>12. CASE LeaveLoop
  <2>0. /\ Rows' = Rows /\ RangeCols' = RangeCols
        /\ sheet' = sheet /\ range' = range /\ opts' = opts
    BY <1>12, FixedFacts DEF LeaveLoop
  <2>1. TypeOK'
    BY <1>3, <1>5, <1>12, <2>0, <1>31 DEF TypeOK, LeaveLoop, parserVars, IsDone, Slots
  <2>2. SlotsCounted'
    BY <1>2, <1>3, <1>4, <1>12, <2>0 DEF LeaveLoop, parserVars, IsDone, SlotsCounted, LoopStatus, Live, Filling, IsDone
  <2>3. RowBounds'
    BY <1>2, <1>3, <1>4, <1>12, <2>0 DEF LeaveLoop, parserVars, IsDone, RowBounds, ContainsRow
  <2>4. LoopStatus'
    BY <1>2, <1>31, <1>12, <2>0 DEF LeaveLoop, parserVars, IsDone, LoopStatus, SlotsCounted, Filling, IsDone, Live
  <2> QED
    BY <2>1, <2>2, <2>3, <2>4 DEF CoreInv
<1>13. CASE BeginRow
  <2>0. /\ Rows' = Rows /\ RangeCols' = RangeCols
        /\ sheet' = sheet /\ range' = range /\ opts' = opts
    BY <1>13, FixedFacts DEF BeginRow
  <2>5. PICK r \in Rows : /\ cell_pos' = [row |-> r, col |-> 0]
                          /\ OnBeginRow(r)
    BY <1>13 DEF BeginRow
  <2>6. r \in 1 .. MaxRow
    BY <1>6
  <2>1. TypeOK'
    <3>1. cell_pos' \in [row : 0 .. MaxRow, col : 0 .. MaxCol]
      BY <1>4, <2>5, <2>6
    <3>2. is_row_empty' \in BOOLEAN
      BY <1>31, <2>5 DEF OnBeginRow
    <3>3. last_col' \in 0 .. MaxCol /\ curr_row' \in 1 .. MaxRow + 1
      BY <1>3, <1>4, <2>5, <2>6 DEF OnBeginRow
    <3>4. xml' \in {"OK", "SUSPENDED", "ABORTED"}
      BY <1>31, <2>5 DEF OnBeginRow
    <3> QED
      BY <1>3, <1>31, <1>13, <2>0, <3>1, <3>2, <3>3, <3>4 DEF TypeOK, BeginRow
  <2>2. SlotsCounted'
    BY <1>2, <1>3, <1>4, <1>13, <2>0 DEF BeginRow, MayCallBack, OnBeginRow, IsNextRow, InsideToken, SlotsCounted, LoopStatus, Live, Filling, IsDone
  <2>3. RowBounds'
    BY <1>2, <1>3, <1>4, <1>13, <2>0, <2>5, <2>6 DEF BeginRow, OnBeginRow, RowBounds, ContainsRow
  <2>4. LoopStatus'
    BY <1>2, <1>3, <1>4, <1>13, <2>0 DEF BeginRow, MayCallBack, OnBeginRow, IsNextRow, InsideToken, LoopStatus, SlotsCounted, Filling, IsDone, Live
  <2> QED
    BY <2>1, <2>2, <2>3, <2>4 DEF CoreInv
<1>14. CASE Cell
  <2>0. /\ Rows' = Rows /\ RangeCols' = RangeCols
        /\ sheet' = sheet /\ range' = range /\ opts' = opts
    BY <1>14, FixedFacts DEF Cell
  <2>5. PICK c \in Cols : /\ cell_pos' = [row |-> cell_pos.row, col |-> c]
                          /\ Kind(c) # "badref" /\ OnCell(c)
    BY <1>14 DEF Cell
  <2>6. c \in 1 .. MaxCol /\ cell_pos.row \in Rows /\ cell_pos.row \in 1 .. MaxRow
    BY <1>2, <1>3, <1>4, <1>6, <1>14 DEF Cell, RowBounds, Cols
  <2>7. CellValue(Kind(c), cell_pos.row, c) \in Value(ChunkKinds)
    <3>1. Kind(c) \in CellKinds
      BY <1>6, <2>6 DEF Kind, RowElements, Cols
    <3> QED
      BY <1>5, <2>6, <3>1 DEF CellValue, Datum, Value, ChunkKinds, CellKinds
  <2>8. chunk' \in [Slots -> [RangeCols -> Value(ChunkKinds)]]
    <3>1. out_index \in Slots
      BY <1>3 DEF Slots
    <3> QED
      <4>1. CASE ContainsPos(cell_pos.row, c)
        <5> DEFINE row == [d \in RangeCols |->
                             IF last_col < d /\ d < c THEN Null
                             ELSE IF d = c THEN CellValue(Kind(c), cell_pos.row, c)
                             ELSE chunk[out_index][d]]
        <5>1. row \in [RangeCols -> Value(ChunkKinds)]
          BY <1>5, <1>31, <2>7, <3>1
        <5>2. chunk' = [chunk EXCEPT ![out_index] = row]
          BY <2>5, <4>1 DEF OnCell
        <5> QED
          BY <1>31, <5>1, <5>2
      <4>2. CASE ~ContainsPos(cell_pos.row, c)
        BY <1>31, <2>5, <4>2 DEF OnCell
      <4> QED
        BY <4>1, <4>2
  <2>1. TypeOK'
    <3>1. cell_pos' \in [row : 0 .. MaxRow, col : 0 .. MaxCol]
      BY <1>3, <1>4, <2>5, <2>6
    <3>2. is_row_empty' \in BOOLEAN
      BY <1>31, <2>5 DEF OnCell
    <3>3. last_col' \in 0 .. MaxCol
      BY <1>3, <1>4, <2>5, <2>6 DEF OnCell
    <3> QED
      BY <1>3, <1>31, <1>14, <2>0, <2>8, <3>1, <3>2, <3>3 DEF TypeOK, Cell
  <2>2. SlotsCounted'
    BY <1>2, <1>3, <1>4, <1>14, <2>0 DEF Cell, MayCallBack, OnCell, IsNextCell, InsideToken, SlotsCounted, LoopStatus, Live, Filling, IsDone
  <2>3. RowBounds'
    BY <1>2, <1>3, <1>4, <1>14, <2>0, <2>5, <2>6 DEF Cell, OnCell, RowBounds, ContainsRow, ContainsPos, ContainsCol
  <2>4. LoopStatus'
    BY <1>2, <1>3, <1>4, <1>14, <2>0 DEF Cell, MayCallBack, OnCell, IsNextCell, InsideToken, LoopStatus, SlotsCounted, Filling, IsDone, Live
  <2> QED
    BY <2>1, <2>2, <2>3, <2>4 DEF CoreInv
<1>15. CASE CellThrows
  <2>0. /\ Rows' = Rows /\ RangeCols' = RangeCols
        /\ sheet' = sheet /\ range' = range /\ opts' = opts
    BY <1>15, FixedFacts DEF CellThrows
  <2>1. TypeOK'
    BY <1>3, <1>5, <1>15, <2>0, <1>31 DEF TypeOK, CellThrows, parserVars, Slots
  <2>2. SlotsCounted'
    BY <1>2, <1>3, <1>4, <1>15, <2>0 DEF CellThrows, parserVars, SlotsCounted, LoopStatus, Live, Filling, IsDone
  <2>3. RowBounds'
    BY <1>2, <1>3, <1>4, <1>15, <2>0 DEF CellThrows, parserVars, RowBounds, ContainsRow
  <2>4. LoopStatus'
    BY <1>2, <1>3, <1>4, <1>15, <2>0 DEF CellThrows, parserVars, LoopStatus, SlotsCounted, Filling, IsDone, Live
  <2> QED
    BY <2>1, <2>2, <2>3, <2>4 DEF CoreInv
<1>16. CASE EndRow
  <2>0. /\ Rows' = Rows /\ RangeCols' = RangeCols
        /\ sheet' = sheet /\ range' = range /\ opts' = opts
    BY <1>16, FixedFacts DEF EndRow
  <2>5. cell_pos.row \in Rows /\ cell_pos.row \in 1 .. MaxRow /\ out_index \in Slots
    BY <1>2, <1>3, <1>4, <1>6, <1>16 DEF EndRow, RowBounds, Slots
  <2>6. chunk' \in [Slots -> [RangeCols -> Value(ChunkKinds)]]
    BY <1>3, <1>5, <1>31, <1>16, <2>5 DEF EndRow, OnEndRow
  <2>7. sheet_row_number' \in [Slots -> 0 .. MaxRow]
    BY <1>2, <1>3, <1>4, <1>31, <1>16, <2>5 DEF EndRow, OnEndRow
  <2>8. out_index' \in Slots /\ size' \in 0 .. VectorSize
    BY <1>2, <1>3, <1>4, <1>16, <2>5 DEF EndRow, OnEndRow, Slots
  <2>1. TypeOK'
    BY <1>2, <1>3, <1>4, <1>16, <2>0, <2>5, <2>6, <2>7, <2>8, <1>31 DEF TypeOK, EndRow, OnEndRow
  <2>2. SlotsCounted'
    BY <1>2, <1>3, <1>4, <1>16, <2>0 DEF EndRow, MayCallBack, OnEndRow, InsideToken, SlotsCounted, LoopStatus, Live, Filling, IsDone
  <2>3. RowBounds'
    BY <1>2, <1>3, <1>4, <1>16, <2>0, <2>5 DEF EndRow, OnEndRow, RowBounds, ContainsRow
  <2>4. LoopStatus'
    BY <1>2, <1>3, <1>4, <1>16, <2>0 DEF EndRow, MayCallBack, OnEndRow, InsideToken, LoopStatus, SlotsCounted, Filling, IsDone, Live
  <2> QED
    BY <2>1, <2>2, <2>3, <2>4 DEF CoreInv
<1>17. CASE EndSheetData
  <2>0. /\ Rows' = Rows /\ RangeCols' = RangeCols
        /\ sheet' = sheet /\ range' = range /\ opts' = opts
    BY <1>17, FixedFacts DEF EndSheetData
  <2>1. TypeOK'
    BY <1>3, <1>5, <1>17, <2>0, <1>31 DEF TypeOK, EndSheetData, MayCallBack, Slots
  <2>2. SlotsCounted'
    BY <1>2, <1>3, <1>4, <1>17, <2>0 DEF EndSheetData, MayCallBack, SlotsCounted, LoopStatus, Live, Filling, IsDone
  <2>3. RowBounds'
    BY <1>2, <1>3, <1>4, <1>17, <2>0 DEF EndSheetData, MayCallBack, RowBounds, ContainsRow
  <2>4. LoopStatus'
    BY <1>2, <1>3, <1>4, <1>17, <2>0 DEF EndSheetData, MayCallBack, LoopStatus, SlotsCounted, Filling, IsDone, Live
  <2> QED
    BY <2>1, <2>2, <2>3, <2>4 DEF CoreInv
<1>18. CASE ParserReturns
  <2>0. /\ Rows' = Rows /\ RangeCols' = RangeCols
        /\ sheet' = sheet /\ range' = range /\ opts' = opts
    BY <1>18, FixedFacts DEF ParserReturns
  <2>1. TypeOK'
    BY <1>3, <1>5, <1>18, <2>0, <1>31 DEF TypeOK, ParserReturns, parserVars, IsDone, InsideToken, Slots
  <2>2. SlotsCounted'
    BY <1>2, <1>3, <1>4, <1>18, <2>0 DEF ParserReturns, parserVars, IsDone, InsideToken, SlotsCounted, LoopStatus, Live, Filling, IsDone
  <2>3. RowBounds'
    BY <1>2, <1>3, <1>4, <1>18, <2>0 DEF ParserReturns, parserVars, IsDone, InsideToken, RowBounds, ContainsRow
  <2>4. LoopStatus'
    BY <1>2, <1>3, <1>4, <1>18, <2>0 DEF ParserReturns, parserVars, IsDone, InsideToken, LoopStatus, SlotsCounted, Filling, IsDone, Live
  <2> QED
    BY <2>1, <2>2, <2>3, <2>4 DEF CoreInv
<1>19. CASE FillRows
  <2>0. /\ Rows' = Rows /\ RangeCols' = RangeCols
        /\ sheet' = sheet /\ range' = range /\ opts' = opts
    BY <1>19, FixedFacts DEF FillRows
  <2>5. /\ RowsToFill \in Nat /\ RowsToFill <= VectorSize - out_index
        /\ RowsToFill <= range.end.row - 1 - last_row
    BY <1>21, <1>3, <1>4 DEF RowsToFill, Lesser
  <2>6. chunk' \in [Slots -> [RangeCols -> Value(ChunkKinds)]]
    BY <1>3, <1>5, <1>31, <1>19 DEF FillRows, PutNullRows
  <2>7. sheet_row_number' \in [Slots -> 0 .. MaxRow]
    <3>1. \A s \in Slots : (out_index <= s /\ s < out_index + RowsToFill) =>
             last_row + (s - out_index) \in 0 .. MaxRow
      BY <1>21, <1>3, <1>4, <2>5 DEF Slots
    <3> QED
      BY <1>31, <1>19, <3>1 DEF FillRows, MapRows
  <2>9. /\ last_row' \in 0 .. MaxRow /\ last_row' < range.end.row
        /\ range.beg.row - 1 <= last_row' /\ out_index' \in Slots
    BY <1>21, <1>3, <1>4, <1>19, <2>5 DEF FillRows, Slots
  <2>8. size' \in 0 .. VectorSize
    BY <1>2, <1>3, <1>4, <1>19, <2>5 DEF FillRows, SlotsCounted, Filling
  <2>1. TypeOK'
    BY <1>3, <1>4, <1>31, <1>19, <2>0, <2>6, <2>7, <2>8, <2>9 DEF TypeOK, FillRows
  <2>2. SlotsCounted'
    BY <1>2, <1>3, <1>4, <1>19, <2>0 DEF FillRows, SlotsCounted, LoopStatus, Live, Filling, IsDone
  <2>3. RowBounds'
    BY <1>21, <1>19, <2>0, <2>9 DEF FillRows, RowBounds, ContainsRow
  <2>4. LoopStatus'
    BY <1>2, <1>3, <1>4, <1>19, <2>0 DEF FillRows, LoopStatus, SlotsCounted, Filling, IsDone, Live
  <2> QED
    BY <2>1, <2>2, <2>3, <2>4 DEF CoreInv
<1>20. CASE CastThrows
  <2>0. /\ Rows' = Rows /\ RangeCols' = RangeCols
        /\ sheet' = sheet /\ range' = range /\ opts' = opts
    BY <1>20, FixedFacts DEF CastThrows
  <2>5. error' \in [row : 0 .. MaxRow, col : 0 .. MaxCol]
    <3>1. PICK s \in Slots, c \in RangeCols : error' = [row |-> sheet_row_number[s], col |-> c]
      BY <1>20 DEF CastThrows, GetCellName
    <3>2. c \in 0 .. MaxCol /\ sheet_row_number[s] \in 0 .. MaxRow
      BY <1>1, <1>4, SheetFacts DEF TypeOK, RangeCols, Cols
    <3> QED
      BY <3>1, <3>2
  <2>1. TypeOK'
    BY <1>3, <1>5, <1>20, <2>0, <2>5, <1>31 DEF TypeOK, CastThrows, GetCellName, parserVars, Slots
  <2>2. SlotsCounted'
    BY <1>2, <1>3, <1>4, <1>20, <2>0 DEF CastThrows, parserVars, SlotsCounted, LoopStatus, Live, Filling, IsDone
  <2>3. RowBounds'
    BY <1>2, <1>3, <1>4, <1>20, <2>0 DEF CastThrows, parserVars, RowBounds, ContainsRow
  <2>4. LoopStatus'
    BY <1>2, <1>3, <1>4, <1>20, <2>0 DEF CastThrows, parserVars, LoopStatus, SlotsCounted, Filling, IsDone, Live
  <2> QED
    BY <2>1, <2>2, <2>3, <2>4 DEF CoreInv
<1>22. CASE ReturnChunk
  <2>0. /\ Rows' = Rows /\ RangeCols' = RangeCols
        /\ sheet' = sheet /\ range' = range /\ opts' = opts
    BY <1>22, FixedFacts DEF ReturnChunk
  <2>5. output' \in Seq([RangeCols -> Value(ChunkKinds)])
    <3> DEFINE row(i) == [c \in RangeCols |-> CastValue(chunk[i - 1][c], c)]
    <3>1. \A i \in 1 .. size : i - 1 \in Slots
      BY <1>2, <1>3, <1>4 DEF Slots
    <3>2. \A i \in 1 .. size : row(i) \in [RangeCols -> Value(ChunkKinds)]
      BY <1>3, <1>5, <1>31, <3>1 DEF CastValue
    <3>3. [i \in 1 .. size |-> row(i)] \in Seq([RangeCols -> Value(ChunkKinds)])
      BY <1>3, <1>4, <3>2
    <3> QED
      BY <1>31, <1>22, <3>3 DEF ReturnChunk
  <2>1. TypeOK'
    BY <1>3, <1>5, <1>22, <2>0, <2>5, <1>31 DEF TypeOK, ReturnChunk, parserVars, Slots
  <2>2. SlotsCounted'
    BY <1>2, <1>3, <1>4, <1>22, <2>0 DEF ReturnChunk, parserVars, SlotsCounted, LoopStatus, Live, Filling, IsDone
  <2>3. RowBounds'
    BY <1>2, <1>3, <1>4, <1>22, <2>0 DEF ReturnChunk, parserVars, RowBounds, ContainsRow
  <2>4. LoopStatus'
    BY <1>2, <1>3, <1>4, <1>22, <2>0 DEF ReturnChunk, parserVars, LoopStatus, SlotsCounted, Filling, IsDone, Live
  <2> QED
    BY <2>1, <2>2, <2>3, <2>4 DEF CoreInv
<1>30. CASE UNCHANGED vars
  <2>0. /\ Rows' = Rows /\ RangeCols' = RangeCols
        /\ sheet' = sheet /\ range' = range /\ opts' = opts
    BY <1>30, FixedFacts DEF vars
  <2> QED
    <3>1. TypeOK'
      BY <1>3, <1>31, <1>30, <2>0 DEF vars, parserVars, TypeOK
    <3>2. SlotsCounted' /\ LoopStatus'
      BY <1>2, <1>30, <2>0 DEF vars, parserVars, SlotsCounted, LoopStatus, Live, Filling, IsDone
    <3>3. RowBounds'
      BY <1>2, <1>30, <2>0 DEF vars, parserVars, RowBounds, ContainsRow
    <3> QED
      BY <3>1, <3>2, <3>3 DEF CoreInv
<1> QED
  BY <1>7, <1>8, <1>9, <1>10, <1>11, <1>12, <1>13, <1>14, <1>15, <1>16, <1>17, <1>18, <1>19, <1>20, <1>22, <1>30 DEF Next, Loop, Callback, Terminated

LEMMA CoreInit == Init => CoreInv
<1> SUFFICES ASSUME Init PROVE CoreInv
  OBVIOUS
<1>1. /\ MaxRow \in Nat \ {0} /\ MaxCol \in Nat \ {0} /\ VectorSize \in Nat \ {0}
      /\ MaxBlocks \in Nat \ {0}
  BY ScanAssumption
<1>2. /\ range.beg.row \in 1 .. MaxRow + 1 /\ range.end.row \in 1 .. MaxRow + 1
      /\ range.beg.row <= range.end.row
      /\ range.beg.col \in 1 .. MaxCol /\ range.end.col \in 2 .. MaxCol + 1
      /\ range.beg.col < range.end.col
  BY DEF Init, Ranges, Cols
<1>3. TypeOK
  <2>1. /\ StaleRow \in [RangeCols -> Value(ChunkKinds)]
        /\ chunk \in [Slots -> [RangeCols -> Value(ChunkKinds)]]
    BY <1>1 DEF Init, StaleRow, Stale, Value, ChunkKinds
  <2>2. /\ last_col \in 0 .. MaxCol /\ last_row \in 0 .. MaxRow /\ curr_row \in 1 .. MaxRow + 1
        /\ size \in 0 .. VectorSize /\ out_index \in Slots /\ blocks_left \in 0 .. MaxBlocks
    BY <1>1, <1>2, SMTT(60) DEF Init, Slots
  <2>3. /\ cell_pos \in [row : 0 .. MaxRow, col : 0 .. MaxCol]
        /\ error \in [row : 0 .. MaxRow, col : 0 .. MaxCol]
        /\ sheet_row_number \in [Slots -> 0 .. MaxRow]
    BY <1>1 DEF Init, NoRef
  <2>4. output \in Seq([RangeCols -> Value(ChunkKinds)])
    BY DEF Init
  <2>5. /\ sheet \in Worksheets /\ range \in Ranges /\ opts \in Options
        /\ status = "OK" /\ xml = "OK" /\ state = "SHEETDATA" /\ pc = "idle"
        /\ is_row_empty = FALSE
    BY DEF Init
  <2> QED
    BY <2>1, <2>2, <2>3, <2>4, <2>5 DEF TypeOK
<1>4. SlotsCounted /\ LoopStatus
  BY <1>1 DEF Init, SlotsCounted, LoopStatus, IsDone, Live
<1>5. RowBounds
  BY <1>1, <1>2, SMTT(60) DEF Init, RowBounds
<1> QED
  BY <1>3, <1>4, <1>5 DEF CoreInv

(* The parser, the chunk and the loop stay in the states their code expects: *)
(* no slot outside the chunk is written, no row or column outside the range  *)
(* is ever current, and the loop never waits for input that does not exist.  *)
THEOREM CoreCorrect == Spec => []CoreInv
<1>1. Init => CoreInv
  BY CoreInit
<1>2. CoreInv /\ [Next]_vars => CoreInv'
  BY CoreStep
<1> QED
  BY <1>1, <1>2, PTL DEF Spec

(* Type correctness of the scan.                                             *)
THEOREM TypeCorrect == Spec => []TypeOK
<1>1. CoreInv => TypeOK
  BY DEF CoreInv
<1> QED
  BY <1>1, CoreCorrect, PTL

(* Without <row r="5"/> elements the parser really stops where it is told    *)
(* to, and every callback and every loop step keeps rows and slots aligned.  *)
LEMMA ScanStep ==
    ASSUME NoSelfClosing, ScanInv, [Next]_vars
    PROVE  ScanInv'
<1>1. CoreInv /\ CoreInv'
  BY CoreStep DEF ScanInv
<1>2. /\ RowsCounted /\ ParserPosition /\ SlotsLineUp /\ FilledToEnd /\ RowsLineUp /\ NothingStale
      /\ TypeOK /\ SlotsCounted /\ RowBounds /\ LoopStatus
  BY DEF ScanInv, CoreInv
<1>3. /\ size \in 0 .. VectorSize /\ out_index \in 0 .. VectorSize - 1
      /\ last_col \in 0 .. MaxCol /\ last_row \in 0 .. MaxRow /\ curr_row \in 1 .. MaxRow + 1
      /\ cell_pos.row \in 0 .. MaxRow /\ cell_pos.col \in 0 .. MaxCol
      /\ range.beg.row - 1 <= last_row /\ last_row < range.end.row
      /\ Len(output) \in Nat
      /\ status \in {"OK", "SUSPENDED", "ABORTED"} /\ xml \in {"OK", "SUSPENDED", "ABORTED"}
  BY <1>2, ScanAssumption DEF TypeOK, Slots, RowBounds
<1>4. /\ range.beg.row \in 1 .. MaxRow + 1 /\ range.end.row \in 1 .. MaxRow + 1
      /\ range.beg.row <= range.end.row
      /\ range.beg.col \in 1 .. MaxCol /\ range.end.col \in 2 .. MaxCol + 1
      /\ range.beg.col < range.end.col
      /\ MaxRow \in Nat \ {0} /\ MaxCol \in Nat \ {0} /\ VectorSize \in Nat \ {0}
  BY <1>2, SheetFacts DEF Cols
<1>5. MayCallBack => xml = "OK"
  <2>1. ~InsideToken
    <3> SUFFICES ASSUME state = "ROW" PROVE ~sheet[cell_pos.row].selfclosing
      BY DEF InsideToken
    <3>1. cell_pos.row \in Rows
      BY <1>2 DEF RowBounds
    <3>2. PICK rows \in SUBSET (1 .. MaxRow) : sheet \in [rows -> RowShapes]
      BY <1>2 DEF TypeOK, Worksheets
    <3> QED
      BY <3>1, <3>2 DEF Rows, NoSelfClosing
  <2> QED
    BY <2>1 DEF MayCallBack
<1>6. /\ last_row \in Int /\ curr_row \in Int /\ size \in Int /\ out_index \in Int
      /\ VectorSize \in Int /\ out_index < VectorSize /\ size >= 0
      /\ range.beg.row \in Int /\ range.end.row \in Int /\ Len(output) \in Int
  BY <1>3, <1>4
<1>11. CASE Call
  <2>0. RangeCols' = RangeCols /\ range' = range /\ opts' = opts
    BY <1>11, FixedFacts DEF Call
  <2>1. RowsCounted'
    BY <1>2, <1>3, <1>4, <1>5, <1>11, <2>0 DEF Call, RowsCounted, SlotsCounted, LoopStatus, ParserPosition, InCall, Live, Filling, InRow
  <2>2. ParserPosition'
    BY <1>2, <1>3, <1>4, <1>5, <1>11, <2>0 DEF Call, ParserPosition, LoopStatus, Live, Filling, InRow, ContainsRow
  <2>3. SlotsLineUp'
    <3>1. \A s \in Slots, c \in RangeCols : chunk'[s][c].kind = "stale"
      BY <1>11 DEF Call, StaleRow, Stale
    <3>2. size' = 0
      BY <1>11 DEF Call
    <3>3. (Live /\ InRow)' => last_col' < range.beg.col
      BY <1>2, <1>3, <1>4, <1>11, <2>0 DEF Call, Live, InRow, ContainsRow, LoopStatus, ParserPosition
    <3>4. \A c \in RangeCols : range.beg.col <= c
      BY DEF RangeCols, ContainsCol
    <3>5. \A s \in Slots : ~(s < 0) /\ Slots' = Slots
      BY DEF Slots
    <3> QED
      <4>1. \A c \in RangeCols : (Live /\ InRow)' => ~(c <= last_col')
        BY <1>3, <1>4, <1>11, <3>3, <3>4 DEF Call, RangeCols, Cols
      <4>2. \A s \in Slots, c \in RangeCols : ~HasDatum(chunk'[s][c])
        BY <3>1 DEF HasDatum
      <4> QED
        BY <2>0, <3>2, <3>5, <4>1, <4>2 DEF SlotsLineUp, HasDatum
  <2>4. FilledToEnd'
    BY <1>2, <1>3, <1>4, <1>5, <1>11, <2>0 DEF Call, FilledToEnd, RowsCounted, SlotsCounted, Live, Filling
  <2>5. RowsLineUp' /\ NothingStale'
    BY <1>2, <1>11, <2>0 DEF Call, RowsLineUp, NothingStale
  <2> QED
    BY <1>1, <2>1, <2>2, <2>3, <2>4, <2>5 DEF ScanInv
<1>12. CASE SkipRows
  <2>0. RangeCols' = RangeCols /\ range' = range /\ opts' = opts
    BY <1>12, FixedFacts DEF SkipRows
  <2>6. Live /\ xml = "SUSPENDED" /\ size # VectorSize /\ out_index = size /\ InCall
    BY <1>2, <1>3, <1>12 DEF SkipRows, SlotsCounted, LoopStatus, Live, InCall
  <2>7. InRow /\ last_col = range.beg.col - 1 /\ curr_row = cell_pos.row /\ last_row + 1 < curr_row
    BY <1>2, <1>3, <1>4, <1>12, <2>6 DEF SkipRows, FoundSkippedRow, ParserPosition
  <2>8. /\ SkippedRows \in Nat \ {0} /\ SkippedRows <= VectorSize - out_index
        /\ SkippedRows <= curr_row - 1 - last_row
    <3>1. last_row + 1 < curr_row
      BY <2>7
    <3>2. curr_row - 1 - last_row \in Nat \ {0} /\ VectorSize - out_index \in Nat \ {0}
      BY <1>6, <3>1
    <3> QED
      BY <3>2 DEF SkippedRows, Lesser
  <2>1. RowsCounted'
    <3>1. last_row = range.beg.row - 1 + Len(output) + size
      BY <1>2, <2>6 DEF RowsCounted
    <3>2. last_row' = last_row + SkippedRows /\ size' = size + SkippedRows /\ output' = output
          /\ pc' = "loop"
      BY <1>12, <2>6 DEF SkipRows
    <3> QED
      BY <1>3, <1>4, <2>0, <2>8, <3>1, <3>2, SMTT(60) DEF RowsCounted
  <2>2. ParserPosition'
    BY <1>3, <1>4, <1>12, <2>0, <2>6, <2>7, <2>8 DEF SkipRows, ParserPosition, InRow, ContainsRow
  <2>3. SlotsLineUp'
    <3>1. size' = size + SkippedRows /\ InCall'
      BY <1>12, <2>6 DEF SkipRows, InCall
    <3>2. \A s \in Slots : /\ size <= s /\ s < size' => chunk'[s] = NullRow
                           /\ ~(size <= s /\ s < size') => chunk'[s] = chunk[s]
      BY <1>12, <2>6, <3>1 DEF SkipRows, PutNullRows
    <3>3. \A c \in RangeCols : NullRow[c].kind = "null" /\ range.beg.col <= c
      BY DEF NullRow, Null, RangeCols, ContainsCol
    <3>4. ASSUME NEW s \in Slots, NEW c \in RangeCols, s < size'
          PROVE  /\ chunk'[s][c].kind # "stale"
                 /\ HasDatum(chunk'[s][c]) => /\ chunk'[s][c].row = range.beg.row + Len(output) + s
                                              /\ chunk'[s][c].col = c
      BY <1>2, <1>3, <2>6, <3>1, <3>2, <3>3, <3>4 DEF SlotsLineUp, HasDatum, Slots
    <3>5. ASSUME NEW s \in Slots, NEW c \in RangeCols, s >= size'
          PROVE  ~HasDatum(chunk'[s][c])
      BY <1>2, <1>3, <2>6, <2>8, <3>1, <3>2, <3>5 DEF SlotsLineUp, Slots
    <3>6. \A c \in RangeCols : ~(c <= last_col)
      BY <1>3, <1>4, <2>7, <3>3 DEF RangeCols, Cols
    <3>7. output' = output /\ last_col' = last_col /\ Slots' = Slots
      BY <1>12 DEF SkipRows, Slots
    <3> QED
      BY <2>0, <3>4, <3>5, <3>6, <3>7 DEF SlotsLineUp, HasDatum
  <2>4. FilledToEnd'
    BY <1>2, <1>3, <1>4, <1>5, <1>12, <2>0 DEF SkipRows, FilledToEnd, RowsCounted, SlotsCounted, Live, Filling
  <2>5. RowsLineUp' /\ NothingStale'
    BY <1>2, <1>12, <2>0 DEF SkipRows, RowsLineUp, NothingStale
  <2> QED
    BY <1>1, <2>1, <2>2, <2>3, <2>4, <2>5 DEF ScanInv
<1>13. CASE StopAtSkippedRow
  <2>0. RangeCols' = RangeCols /\ range' = range /\ opts' = opts
    BY <1>13, FixedFacts DEF StopAtSkippedRow
  <2>1. RowsCounted'
    BY <1>2, <1>3, <1>4, <1>5, <1>13, <2>0 DEF StopAtSkippedRow, parserVars, RowsCounted, SlotsCounted, LoopStatus, ParserPosition, InCall, Live, Filling, InRow
  <2>2. ParserPosition'
    BY <1>2, <1>3, <1>4, <1>5, <1>13, <2>0 DEF StopAtSkippedRow, parserVars, ParserPosition, LoopStatus, Live, Filling, InRow, ContainsRow
  <2>3. SlotsLineUp'
    BY <1>2, <1>3, <1>4, <1>5, <1>13, <2>0 DEF StopAtSkippedRow, parserVars, SlotsLineUp, SlotsCounted, LoopStatus, ParserPosition, InCall, Live, Filling, InRow, ContainsRow, HasDatum
  <2>4. FilledToEnd'
    BY <1>2, <1>3, <1>4, <1>5, <1>13, <2>0 DEF StopAtSkippedRow, parserVars, FilledToEnd, RowsCounted, SlotsCounted, Live, Filling
  <2>5. RowsLineUp' /\ NothingStale'
    BY <1>2, <1>13, <2>0 DEF StopAtSkippedRow, RowsLineUp, NothingStale
  <2> QED
    BY <1>1, <2>1, <2>2, <2>3, <2>4, <2>5 DEF ScanInv
<1>14. CASE Resume
  <2>0. RangeCols' = RangeCols /\ range' = range /\ opts' = opts
    BY <1>14, FixedFacts DEF Resume
  <2>1. RowsCounted'
    BY <1>2, <1>3, <1>4, <1>5, <1>14, <2>0 DEF Resume, FoundSkippedRow, RowsCounted, SlotsCounted, LoopStatus, ParserPosition, InCall, Live, Filling, InRow
  <2>2. ParserPosition'
    BY <1>2, <1>3, <1>4, <1>5, <1>14, <2>0 DEF Resume, FoundSkippedRow, ParserPosition, LoopStatus, Live, Filling, InRow, ContainsRow
  <2>3. SlotsLineUp'
    BY <1>2, <1>3, <1>4, <1>5, <1>14, <2>0 DEF Resume, FoundSkippedRow, SlotsLineUp, SlotsCounted, LoopStatus, ParserPosition, InCall, Live, Filling, InRow, ContainsRow, HasDatum
  <2>4. FilledToEnd'
    BY <1>2, <1>3, <1>4, <1>5, <1>14, <2>0 DEF Resume, FoundSkippedRow, FilledToEnd, RowsCounted, SlotsCounted, Live, Filling
  <2>5. RowsLineUp' /\ NothingStale'
    BY <1>2, <1>14, <2>0 DEF Resume, RowsLineUp, NothingStale
  <2> QED
    BY <1>1, <2>1, <2>2, <2>3, <2>4, <2>5 DEF ScanInv
<1>15. CASE ReadBlock
  <2>0. RangeCols' = RangeCols /\ range' = range /\ opts' = opts
    BY <1>15, FixedFacts DEF ReadBlock
  <2>1. RowsCounted'
    BY <1>2, <1>3, <1>4, <1>5, <1>15, <2>0 DEF ReadBlock, parserVars, RowsCounted, SlotsCounted, LoopStatus, ParserPosition, InCall, Live, Filling, InRow
  <2>2. ParserPosition'
    BY <1>2, <1>3, <1>4, <1>5, <1>15, <2>0 DEF ReadBlock, parserVars, ParserPosition, LoopStatus, Live, Filling, InRow, ContainsRow
  <2>3. SlotsLineUp'
    BY <1>2, <1>3, <1>4, <1>5, <1>15, <2>0 DEF ReadBlock, parserVars, SlotsLineUp, SlotsCounted, LoopStatus, ParserPosition, InCall, Live, Filling, InRow, ContainsRow, HasDatum
  <2>4. FilledToEnd'
    BY <1>2, <1>3, <1>4, <1>5, <1>15, <2>0 DEF ReadBlock, parserVars, FilledToEnd, RowsCounted, SlotsCounted, Live, Filling
  <2>5. RowsLineUp' /\ NothingStale'
    BY <1>2, <1>15, <2>0 DEF ReadBlock, RowsLineUp, NothingStale
  <2> QED
    BY <1>1, <2>1, <2>2, <2>3, <2>4, <2>5 DEF ScanInv
<1>16. CASE LeaveLoop
  <2>0. RangeCols' = RangeCols /\ range' = range /\ opts' = opts
    BY <1>16, FixedFacts DEF LeaveLoop
  <2>1. RowsCounted'
    BY <1>2, <1>3, <1>4, <1>5, <1>16, <2>0 DEF LeaveLoop, parserVars, RowsCounted, SlotsCounted, LoopStatus, ParserPosition, InCall, Live, Filling, InRow
  <2>2. ParserPosition'
    BY <1>2, <1>3, <1>4, <1>5, <1>16, <2>0 DEF LeaveLoop, parserVars, ParserPosition, LoopStatus, Live, Filling, InRow, ContainsRow
  <2>3. SlotsLineUp'
    BY <1>2, <1>3, <1>4, <1>5, <1>16, <2>0 DEF LeaveLoop, parserVars, SlotsLineUp, SlotsCounted, LoopStatus, ParserPosition, InCall, Live, Filling, InRow, ContainsRow, HasDatum
  <2>4. FilledToEnd'
    BY <1>2, <1>3, <1>4, <1>5, <1>16, <2>0 DEF LeaveLoop, parserVars, FilledToEnd, RowsCounted, SlotsCounted, Live, Filling
  <2>5. RowsLineUp' /\ NothingStale'
    BY <1>2, <1>16, <2>0 DEF LeaveLoop, RowsLineUp, NothingStale
  <2> QED
    BY <1>1, <2>1, <2>2, <2>3, <2>4, <2>5 DEF ScanInv
<1>17. CASE BeginRow
  <2>0. RangeCols' = RangeCols /\ range' = range /\ opts' = opts
    BY <1>17, FixedFacts DEF BeginRow
  <2>6. Live /\ xml = "OK" /\ state = "SHEETDATA" /\ state' = "ROW" /\ ~InRow /\ InCall
    BY <1>2, <1>5, <1>17 DEF BeginRow, MayCallBack, LoopStatus, Live, InRow, InCall
  <2>7. PICK r \in Rows : /\ r > cell_pos.row /\ OnBeginRow(r)
                          /\ cell_pos' = [row |-> r, col |-> 0]
    BY <1>17 DEF BeginRow, IsNextRow
  <2>8. cell_pos'.row = r /\ r \in 1 .. MaxRow
    BY <1>2, <2>7, SheetFacts
  <2>1. RowsCounted'
    BY <1>2, <1>3, <1>4, <1>5, <1>17, <2>0 DEF BeginRow, OnBeginRow, IsNextRow, RowsCounted, SlotsCounted, LoopStatus, ParserPosition, InCall, Live, Filling, InRow
  <2>2. ParserPosition'
    <3>1. last_row + 1 >= curr_row /\ (last_row <= cell_pos.row \/ last_row = range.beg.row - 1)
      BY <1>2, <2>6 DEF ParserPosition
    <3>2. CASE ContainsRow(r)
      <4>1. curr_row' = r /\ last_col' = range.beg.col - 1 /\ last_row' = last_row /\ InRow'
        BY <1>17, <2>0, <2>6, <2>7, <2>8, <3>2 DEF BeginRow, OnBeginRow, InRow, ContainsRow
      <4>2. last_row < r
        BY <1>3, <1>4, <2>7, <2>8, <3>1, <3>2, SMTT(60) DEF ContainsRow
      <4>3. xml' = "OK" => last_row + 1 = r
        BY <1>3, <2>6, <2>7, <2>8, <3>2, <4>2 DEF OnBeginRow
      <4> QED
        BY <1>3, <2>0, <2>8, <4>1, <4>2, <4>3 DEF ParserPosition
    <3>3. CASE ~ContainsRow(r)
      <4>1. ~InRow' /\ curr_row' = curr_row /\ last_row' = last_row
        BY <1>17, <2>0, <2>7, <2>8, <3>3 DEF BeginRow, OnBeginRow, InRow, ContainsRow
      <4> QED
        BY <1>3, <1>4, <2>0, <2>7, <2>8, <3>1, <4>1 DEF ParserPosition
    <3> QED
      BY <3>2, <3>3
  <2>3. SlotsLineUp'
    <3>1. chunk' = chunk /\ size' = size /\ output' = output /\ out_index' = out_index
          /\ Slots' = Slots /\ InCall'
      BY <1>17, <2>6 DEF BeginRow, Slots, InCall, MayCallBack
    <3>2. \A s \in Slots, c \in RangeCols :
             /\ s < size => /\ chunk[s][c].kind # "stale"
                            /\ HasDatum(chunk[s][c]) => /\ chunk[s][c].row = range.beg.row + Len(output) + s
                                                        /\ chunk[s][c].col = c
             /\ s >= size => ~HasDatum(chunk[s][c])
      BY <1>2, <2>6 DEF SlotsLineUp
    <3>3. \A c \in RangeCols : InRow' => ~(c <= last_col')
      BY <1>3, <1>4, <1>17, <2>0, <2>7, <2>8 DEF InRow, ContainsRow, OnBeginRow, RangeCols, ContainsCol, Cols
    <3> QED
      BY <2>0, <3>1, <3>2, <3>3 DEF SlotsLineUp, HasDatum
  <2>4. FilledToEnd'
    BY <1>2, <1>3, <1>4, <1>5, <1>17, <2>0 DEF BeginRow, OnBeginRow, IsNextRow, FilledToEnd, RowsCounted, SlotsCounted, Live, Filling
  <2>5. RowsLineUp' /\ NothingStale'
    BY <1>2, <1>17, <2>0 DEF BeginRow, RowsLineUp, NothingStale
  <2> QED
    BY <1>1, <2>1, <2>2, <2>3, <2>4, <2>5 DEF ScanInv
<1>18. CASE Cell
  <2>0. RangeCols' = RangeCols /\ range' = range /\ opts' = opts
    BY <1>18, FixedFacts DEF Cell
  <2>6. /\ Live /\ Live' /\ xml = "OK" /\ InCall /\ InCall' /\ state' = state /\ state = "ROW"
        /\ size # VectorSize /\ out_index = size /\ out_index' = out_index
        /\ size' = size /\ output' = output /\ Slots' = Slots
    BY <1>2, <1>3, <1>5, <1>18 DEF Cell, MayCallBack, LoopStatus, SlotsCounted, Live, InCall, Slots
  <2>7. PICK c \in Cols : /\ cell_pos' = [row |-> cell_pos.row, col |-> c]
                          /\ Kind(c) # "badref" /\ Kind(c) # "absent" /\ OnCell(c)
    BY <1>18 DEF Cell, IsNextCell
  <2>8. cell_pos'.row = cell_pos.row /\ InRow' = InRow
    BY <1>3, <2>0, <2>6, <2>7 DEF InRow, ContainsRow
  <2>1. RowsCounted'
    BY <1>2, <1>3, <1>4, <1>5, <1>18, <2>0 DEF Cell, OnCell, RowsCounted, SlotsCounted, LoopStatus, ParserPosition, InCall, Live, Filling, InRow
  <2>2. ParserPosition'
    BY <1>2, <1>3, <1>4, <1>5, <1>18, <2>0 DEF Cell, OnCell, ParserPosition, LoopStatus, Live, Filling, InRow, ContainsRow
  <2>3. SlotsLineUp'
    <3>1. CASE ~ContainsPos(cell_pos.row, c)
      <4>1. chunk' = chunk /\ last_col' = last_col
        BY <2>7, <3>1 DEF OnCell
      <4> QED
        BY <1>2, <2>0, <2>6, <2>8, <4>1 DEF SlotsLineUp, HasDatum
    <3>2. CASE ContainsPos(cell_pos.row, c)
      <4>1. InRow /\ c \in RangeCols /\ last_col' = c /\ out_index \in Slots
        BY <1>2, <2>6, <2>7, <3>2 DEF InRow, ContainsPos, OnCell, RangeCols, TypeOK
      <4>2. \A s \in Slots : s # out_index => chunk'[s] = chunk[s]
        BY <1>2, <2>7, <3>2 DEF OnCell, TypeOK
      <4>3. \A d \in RangeCols :
               chunk'[out_index][d] = IF last_col < d /\ d < c THEN Null
                                      ELSE IF d = c THEN CellValue(Kind(c), cell_pos.row, c)
                                      ELSE chunk[out_index][d]
        BY <1>2, <2>7, <3>2, <4>1 DEF OnCell, TypeOK
      <4>4. LET v == CellValue(Kind(c), cell_pos.row, c)
            IN  v.kind # "stale" /\ (HasDatum(v) => v.row = cell_pos.row /\ v.col = c)
        <5>1. Kind(c) # "stale"
          <6>1. cell_pos.row \in Rows
            BY <1>2, <2>6 DEF RowBounds
          <6> QED
            BY <1>2, <6>1, SheetFacts DEF Kind, RowElements, CellKinds, Cols
        <5> QED
          BY <5>1 DEF CellValue, Datum, HasDatum, Null
      <4>5. ASSUME NEW d \in RangeCols
            PROVE  /\ HasDatum(chunk'[size][d]) => /\ chunk'[size][d].row = cell_pos.row
                                                   /\ chunk'[size][d].col = d
                   /\ d <= c => chunk'[size][d].kind # "stale"
        <5>1. Null.kind = "null" /\ ~HasDatum(Null)
          BY DEF Null, HasDatum
        <5>2. HasDatum(chunk[size][d]) => chunk[size][d].row = cell_pos.row /\ chunk[size][d].col = d
          BY <1>2, <1>3, <2>6, <4>1 DEF SlotsLineUp
        <5>3. d <= last_col => chunk[size][d].kind # "stale"
          BY <1>2, <2>6, <4>1 DEF SlotsLineUp
        <5>4. d \in Int /\ c \in Int
          BY <1>4, <2>7 DEF RangeCols, Cols
        <5> QED
          BY <1>3, <2>6, <4>3, <4>4, <5>1, <5>2, <5>3, <5>4
      <4>6. ASSUME NEW s \in Slots, NEW d \in RangeCols, s # size
            PROVE  /\ s < size => /\ chunk'[s][d].kind # "stale"
                                  /\ HasDatum(chunk'[s][d]) =>
                                       /\ chunk'[s][d].row = range.beg.row + Len(output) + s
                                       /\ chunk'[s][d].col = d
                   /\ s >= size => ~HasDatum(chunk'[s][d])
        BY <1>2, <2>6, <4>2, <4>6 DEF SlotsLineUp
      <4> QED
        BY <1>3, <2>0, <2>6, <2>8, <4>1, <4>5, <4>6 DEF SlotsLineUp, HasDatum
    <3> QED
      BY <3>1, <3>2
  <2>4. FilledToEnd'
    BY <1>2, <1>3, <1>4, <1>5, <1>18, <2>0 DEF Cell, OnCell, FilledToEnd, RowsCounted, SlotsCounted, Live, Filling
  <2>5. RowsLineUp' /\ NothingStale'
    BY <1>2, <1>18, <2>0 DEF Cell, RowsLineUp, NothingStale
  <2> QED
    BY <1>1, <2>1, <2>2, <2>3, <2>4, <2>5 DEF ScanInv
<1>19. CASE CellThrows
  <2>0. RangeCols' = RangeCols /\ range' = range /\ opts' = opts
    BY <1>19, FixedFacts DEF CellThrows
  <2>1. RowsCounted'
    BY <1>2, <1>3, <1>4, <1>5, <1>19, <2>0 DEF CellThrows, parserVars, RowsCounted, SlotsCounted, LoopStatus, ParserPosition, InCall, Live, Filling, InRow
  <2>2. ParserPosition'
    BY <1>2, <1>3, <1>4, <1>5, <1>19, <2>0 DEF CellThrows, parserVars, ParserPosition, LoopStatus, Live, Filling, InRow, ContainsRow
  <2>3. SlotsLineUp'
    BY <1>2, <1>3, <1>4, <1>5, <1>19, <2>0 DEF CellThrows, parserVars, SlotsLineUp, SlotsCounted, LoopStatus, ParserPosition, InCall, Live, Filling, InRow, ContainsRow, HasDatum
  <2>4. FilledToEnd'
    BY <1>2, <1>3, <1>4, <1>5, <1>19, <2>0 DEF CellThrows, parserVars, FilledToEnd, RowsCounted, SlotsCounted, Live, Filling
  <2>5. RowsLineUp' /\ NothingStale'
    BY <1>2, <1>19, <2>0 DEF CellThrows, RowsLineUp, NothingStale
  <2> QED
    BY <1>1, <2>1, <2>2, <2>3, <2>4, <2>5 DEF ScanInv
<1>20. CASE EndRow
  <2>0. RangeCols' = RangeCols /\ range' = range /\ opts' = opts
    BY <1>20, FixedFacts DEF EndRow
  <2>6. /\ Live /\ xml = "OK" /\ InCall /\ InCall' /\ state = "ROW" /\ state' = "SHEETDATA"
        /\ pc = "parse" /\ pc' = "parse"
        /\ size # VectorSize /\ out_index = size /\ output' = output /\ Slots' = Slots
        /\ cell_pos' = cell_pos
    BY <1>2, <1>3, <1>5, <1>20 DEF EndRow, MayCallBack, LoopStatus, SlotsCounted, Live, InCall, Slots
  <2>7. ~InRow'
    BY <2>6 DEF InRow
  <2>8. last_row = range.beg.row - 1 + Len(output) + size
    BY <1>2, <2>6 DEF RowsCounted
  <2>9. ASSUME ~ContainsRow(cell_pos.row)
        PROVE  RowsCounted' /\ SlotsLineUp' /\ FilledToEnd'
    <3>1. /\ last_row' = last_row /\ xml' = xml /\ chunk' = chunk /\ size' = size /\ ~InRow
      BY <1>20, <2>9 DEF EndRow, OnEndRow, InRow
    <3>2. RowsCounted' /\ FilledToEnd'
      BY <2>0, <2>6, <2>8, <3>1 DEF RowsCounted, FilledToEnd
    <3>3. SlotsLineUp'
      BY <1>2, <2>0, <2>6, <2>7, <3>1 DEF SlotsLineUp, HasDatum
    <3> QED
      BY <3>2, <3>3
  <2>10. ASSUME ContainsRow(cell_pos.row) /\ opts.stop_at_empty /\ is_row_empty
        PROVE  RowsCounted' /\ SlotsLineUp' /\ FilledToEnd'
    <3>1. xml' = "ABORTED" /\ chunk' = chunk /\ size' = size
      BY <1>20, <2>10 DEF EndRow, OnEndRow
    <3>2. RowsCounted' /\ FilledToEnd'
      BY <2>0, <2>6, <2>10, <3>1 DEF RowsCounted, FilledToEnd, Live, Filling
    <3>3. SlotsLineUp'
      BY <1>2, <2>0, <2>6, <3>1 DEF SlotsLineUp, HasDatum, Live
    <3> QED
      BY <3>2, <3>3
  <2>11. ASSUME ContainsRow(cell_pos.row) /\ ~(opts.stop_at_empty /\ is_row_empty)
        PROVE  RowsCounted' /\ SlotsLineUp' /\ FilledToEnd'
    <3>1. /\ last_row' = cell_pos.row /\ size' = size + 1 /\ InRow
          /\ chunk' = [chunk EXCEPT ![size] =
                          [d \in RangeCols |-> IF last_col < d THEN Null ELSE chunk[size][d]]]
      BY <1>20, <2>6, <2>11 DEF EndRow, OnEndRow, InRow
    <3>2. last_row + 1 = cell_pos.row
      BY <1>2, <2>6, <3>1 DEF ParserPosition
    <3>6. cell_pos.row = range.beg.row + Len(output) + size
      BY <1>3, <1>4, <2>8, <3>2, SMTT(60)
    <3>3. RowsCounted'
      <4>1. last_row' = range.beg.row - 1 + Len(output) + size'
        <5>1. range.beg.row \in Int /\ Len(output) \in Int /\ size \in Int
          BY <1>3, <1>4
        <5>2. cell_pos.row = range.beg.row - 1 + Len(output) + (size + 1)
          BY <3>6, <5>1
        <5> QED
          BY <3>1, <5>2
      <4> QED
        BY <2>0, <2>6, <4>1 DEF RowsCounted
    <3>4. FilledToEnd'
      BY <2>6 DEF FilledToEnd
    <3>5. SlotsLineUp'
      <4>1. /\ size \in Slots
            /\ \A d \in RangeCols : chunk'[size][d] = IF last_col < d THEN Null ELSE chunk[size][d]
            /\ \A s \in Slots : s # size => chunk'[s] = chunk[s]
        BY <1>2, <2>6, <3>1 DEF TypeOK
      <4>2. ASSUME NEW d \in RangeCols
            PROVE  /\ chunk'[size][d].kind # "stale"
                   /\ HasDatum(chunk'[size][d]) =>
                        /\ chunk'[size][d].row = range.beg.row + Len(output) + size
                        /\ chunk'[size][d].col = d
        <5>1. CASE last_col < d
          BY <4>1, <5>1 DEF HasDatum, Null
        <5>2. CASE ~(last_col < d)
          <6>1. d \in Int /\ d <= last_col
            BY <1>3, <1>4, <5>2 DEF RangeCols, Cols
          <6>2. /\ chunk[size][d].kind # "stale"
                /\ HasDatum(chunk[size][d]) => chunk[size][d].row = cell_pos.row /\ chunk[size][d].col = d
            BY <1>2, <1>3, <2>6, <3>1, <4>1, <6>1 DEF SlotsLineUp
          <6> QED
            BY <3>6, <4>1, <5>2, <6>2
        <5> QED
          BY <5>1, <5>2
      <4>3. ASSUME NEW s \in Slots, NEW d \in RangeCols, s # size
            PROVE  /\ s < size => /\ chunk'[s][d].kind # "stale"
                                  /\ HasDatum(chunk'[s][d]) =>
                                       /\ chunk'[s][d].row = range.beg.row + Len(output) + s
                                       /\ chunk'[s][d].col = d
                   /\ s >= size => ~HasDatum(chunk'[s][d])
        BY <1>2, <2>6, <4>1, <4>3 DEF SlotsLineUp
      <4>4. \A s \in Slots : /\ s < size' => s = size \/ (s # size /\ s < size)
                             /\ s >= size' => s # size /\ s >= size
        BY <1>3, <1>4, <3>1 DEF Slots
      <4> QED
        BY <2>0, <2>6, <2>7, <4>2, <4>3, <4>4 DEF SlotsLineUp, HasDatum
    <3> QED
      BY <3>3, <3>4, <3>5
  <2>1. RowsCounted'
    BY <2>9, <2>10, <2>11
  <2>2. ParserPosition'
    BY <1>2, <1>3, <1>4, <1>5, <1>20, <2>0, SMTT(60) DEF EndRow, OnEndRow, ParserPosition, LoopStatus, Live, Filling, InRow, ContainsRow
  <2>3. SlotsLineUp'
    BY <2>9, <2>10, <2>11
  <2>4. FilledToEnd'
    BY <2>9, <2>10, <2>11
  <2>5. RowsLineUp' /\ NothingStale'
    BY <1>2, <1>20, <2>0 DEF EndRow, RowsLineUp, NothingStale
  <2> QED
    BY <1>1, <2>1, <2>2, <2>3, <2>4, <2>5 DEF ScanInv
<1>21. CASE EndSheetData
  <2>0. RangeCols' = RangeCols /\ range' = range /\ opts' = opts
    BY <1>21, FixedFacts DEF EndSheetData
  <2>1. RowsCounted'
    BY <1>2, <1>3, <1>4, <1>5, <1>21, <2>0 DEF EndSheetData, RowsCounted, SlotsCounted, LoopStatus, ParserPosition, InCall, Live, Filling, InRow
  <2>2. ParserPosition'
    BY <1>2, <1>3, <1>4, <1>5, <1>21, <2>0 DEF EndSheetData, ParserPosition, LoopStatus, Live, Filling, InRow, ContainsRow
  <2>3. SlotsLineUp'
    BY <1>2, <1>3, <1>4, <1>5, <1>21, <2>0 DEF EndSheetData, SlotsLineUp, SlotsCounted, LoopStatus, ParserPosition, InCall, Live, Filling, InRow, ContainsRow, HasDatum
  <2>4. FilledToEnd'
    BY <1>2, <1>3, <1>4, <1>5, <1>21, <2>0 DEF EndSheetData, FilledToEnd, RowsCounted, SlotsCounted, Live, Filling
  <2>5. RowsLineUp' /\ NothingStale'
    BY <1>2, <1>21, <2>0 DEF EndSheetData, RowsLineUp, NothingStale
  <2> QED
    BY <1>1, <2>1, <2>2, <2>3, <2>4, <2>5 DEF ScanInv
<1>22. CASE ParserReturns
  <2>0. RangeCols' = RangeCols /\ range' = range /\ opts' = opts
    BY <1>22, FixedFacts DEF ParserReturns
  <2>1. RowsCounted'
    BY <1>2, <1>3, <1>4, <1>5, <1>22, <2>0 DEF ParserReturns, parserVars, RowsCounted, SlotsCounted, LoopStatus, ParserPosition, InCall, Live, Filling, InRow
  <2>2. ParserPosition'
    BY <1>2, <1>3, <1>4, <1>5, <1>22, <2>0 DEF ParserReturns, parserVars, ParserPosition, LoopStatus, Live, Filling, InRow, ContainsRow
  <2>3. SlotsLineUp'
    BY <1>2, <1>3, <1>4, <1>5, <1>22, <2>0 DEF ParserReturns, parserVars, SlotsLineUp, SlotsCounted, LoopStatus, ParserPosition, InCall, Live, Filling, InRow, ContainsRow, HasDatum
  <2>4. FilledToEnd'
    BY <1>2, <1>3, <1>4, <1>5, <1>22, <2>0 DEF ParserReturns, parserVars, FilledToEnd, RowsCounted, SlotsCounted, Live, Filling
  <2>5. RowsLineUp' /\ NothingStale'
    BY <1>2, <1>22, <2>0 DEF ParserReturns, RowsLineUp, NothingStale
  <2> QED
    BY <1>1, <2>1, <2>2, <2>3, <2>4, <2>5 DEF ScanInv
<1>23. CASE FillRows
  <2>0. RangeCols' = RangeCols /\ range' = range /\ opts' = opts
    BY <1>23, FixedFacts DEF FillRows
  <2>6. pc = "fill" /\ pc' = "cast" /\ InCall /\ InCall' /\ output' = output /\ Slots' = Slots
    BY <1>23 DEF FillRows, InCall, Slots
  <2>7. ASSUME ~(Filling /\ size # VectorSize)
        PROVE  RowsCounted' /\ SlotsLineUp' /\ FilledToEnd'
    <3>1. UNCHANGED <<chunk, last_row, size, out_index, status, xml, state, cell_pos, last_col, curr_row>>
      BY <1>23, <2>7 DEF FillRows, Filling
    <3>2. RowsCounted' /\ FilledToEnd'
      BY <1>2, <1>3, <1>4, <2>0, <2>6, <2>7, <3>1 DEF RowsCounted, FilledToEnd, Live, Filling
    <3>3. SlotsLineUp'
      BY <1>2, <2>0, <2>6, <3>1 DEF SlotsLineUp, HasDatum, Live, InRow, ContainsRow
    <3> QED
      BY <3>2, <3>3
  <2>8. ASSUME Filling /\ size # VectorSize
        PROVE  RowsCounted' /\ SlotsLineUp' /\ FilledToEnd'
    <3>1. ~Live /\ ~Live' /\ Filling /\ out_index = size
      BY <1>2, <1>23, <2>6, <2>8 DEF FillRows, LoopStatus, SlotsCounted, Live
    <3>2. last_row = range.beg.row - 1 + Len(output) + size
      BY <1>2, <2>6, <3>1 DEF RowsCounted, InCall
    <3>3. /\ RowsToFill \in Nat /\ RowsToFill <= VectorSize - size
          /\ RowsToFill = range.end.row - 1 - last_row \/ RowsToFill = VectorSize - size
      <4>1. range.end.row - 1 - last_row \in Nat /\ VectorSize - size \in Nat
        BY <1>3, <1>4
      <4> QED
        BY <3>1, <4>1 DEF RowsToFill, Lesser
    <3>4. last_row' = last_row + RowsToFill /\ size' = size + RowsToFill
      BY <1>23, <2>8 DEF FillRows, Filling
    <3>5. RowsCounted'
      BY <1>3, <1>4, <2>0, <2>6, <3>2, <3>3, <3>4, SMTT(60) DEF RowsCounted
    <3>6. FilledToEnd'
      BY <1>3, <1>4, <2>0, <2>6, <3>3, <3>4 DEF FilledToEnd
    <3>7. SlotsLineUp'
      <4>1. \A s \in Slots : s < size' => chunk'[s] = IF size <= s THEN NullRow ELSE chunk[s]
        BY <1>23, <2>8, <3>1, <3>4 DEF FillRows, PutNullRows, Filling
      <4>2. \A c \in RangeCols : NullRow[c].kind = "null"
        BY DEF NullRow, Null
      <4>3. \A s \in Slots : size <= s \/ s < size
        BY <1>3, <1>4 DEF Slots
      <4>4. ASSUME NEW s \in Slots, NEW c \in RangeCols, s < size'
            PROVE  /\ chunk'[s][c].kind # "stale"
                   /\ HasDatum(chunk'[s][c]) => /\ chunk'[s][c].row = range.beg.row + Len(output) + s
                                                /\ chunk'[s][c].col = c
        BY <1>2, <2>6, <4>1, <4>2, <4>3, <4>4 DEF SlotsLineUp, HasDatum
      <4> QED
        BY <2>0, <2>6, <3>1, <4>4 DEF SlotsLineUp, HasDatum
    <3> QED
      BY <3>5, <3>6, <3>7
  <2>1. RowsCounted'
    BY <2>7, <2>8
  <2>2. ParserPosition'
    BY <1>2, <1>3, <1>4, <1>5, <1>23, <2>0 DEF FillRows, ParserPosition, LoopStatus, Live, Filling, InRow, ContainsRow
  <2>3. SlotsLineUp'
    BY <2>7, <2>8
  <2>4. FilledToEnd'
    BY <2>7, <2>8
  <2>5. RowsLineUp' /\ NothingStale'
    BY <1>2, <1>23, <2>0 DEF FillRows, RowsLineUp, NothingStale
  <2> QED
    BY <1>1, <2>1, <2>2, <2>3, <2>4, <2>5 DEF ScanInv
<1>24. CASE CastThrows
  <2>0. RangeCols' = RangeCols /\ range' = range /\ opts' = opts
    BY <1>24, FixedFacts DEF CastThrows
  <2>1. RowsCounted'
    BY <1>2, <1>3, <1>4, <1>5, <1>24, <2>0 DEF CastThrows, parserVars, RowsCounted, SlotsCounted, LoopStatus, ParserPosition, InCall, Live, Filling, InRow
  <2>2. ParserPosition'
    BY <1>2, <1>3, <1>4, <1>5, <1>24, <2>0 DEF CastThrows, parserVars, ParserPosition, LoopStatus, Live, Filling, InRow, ContainsRow
  <2>3. SlotsLineUp'
    BY <1>2, <1>3, <1>4, <1>5, <1>24, <2>0 DEF CastThrows, parserVars, SlotsLineUp, SlotsCounted, LoopStatus, ParserPosition, InCall, Live, Filling, InRow, ContainsRow, HasDatum
  <2>4. FilledToEnd'
    BY <1>2, <1>3, <1>4, <1>5, <1>24, <2>0 DEF CastThrows, parserVars, FilledToEnd, RowsCounted, SlotsCounted, Live, Filling
  <2>5. RowsLineUp' /\ NothingStale'
    BY <1>2, <1>24, <2>0 DEF CastThrows, RowsLineUp, NothingStale
  <2> QED
    BY <1>1, <2>1, <2>2, <2>3, <2>4, <2>5 DEF ScanInv
<1>25. CASE ReturnChunk
  <2>0. RangeCols' = RangeCols /\ range' = range /\ opts' = opts
    BY <1>25, FixedFacts DEF ReturnChunk
  <2>6. /\ pc = "cast" /\ InCall /\ pc' \in {"done", "idle"} /\ (pc' = "done" <=> size = 0)
    BY <1>25 DEF ReturnChunk, InCall
  <2>7. /\ Len(output') = Len(output) + size
        /\ \A i \in 1 .. Len(output) : output'[i] = output[i]
        /\ \A i \in 1 .. Len(output') : i > Len(output) =>
             output'[i] = [c \in RangeCols |-> CastValue(chunk[i - Len(output) - 1][c], c)]
    <3> DEFINE rows == [i \in 1 .. size |-> [c \in RangeCols |-> CastValue(chunk[i - 1][c], c)]]
    <3>1. rows \in Seq([RangeCols -> Value(ChunkKinds)]) /\ Len(rows) = size
          /\ \A i \in 1 .. size : rows[i] = [c \in RangeCols |-> CastValue(chunk[i - 1][c], c)]
      <4>1. \A i \in 1 .. size : i - 1 \in Slots
        BY <1>3, <1>4 DEF Slots
      <4>2. Null \in Value(ChunkKinds)
        BY <1>4 DEF Null, Value, ChunkKinds
      <4>3. \A i \in 1 .. size : rows[i] \in [RangeCols -> Value(ChunkKinds)]
        BY <1>2, <4>1, <4>2 DEF TypeOK, CastValue
      <4> QED
        BY <1>3, <4>3
    <3>2. output' = output \o rows /\ output \in Seq([RangeCols -> Value(ChunkKinds)])
      BY <1>2, <1>25 DEF ReturnChunk, TypeOK
    <3> QED
      BY <1>3, <3>1, <3>2
  <2>1. RowsCounted'
    BY <1>2, <1>3, <1>4, <1>5, <1>25, <2>0, SMTT(60) DEF ReturnChunk, parserVars, RowsCounted, SlotsCounted, LoopStatus, ParserPosition, InCall, Live, Filling, InRow
  <2>2. ParserPosition'
    BY <1>2, <1>3, <1>4, <1>5, <1>25, <2>0 DEF ReturnChunk, parserVars, ParserPosition, LoopStatus, Live, Filling, InRow, ContainsRow
  <2>3. SlotsLineUp'
    BY <1>2, <1>3, <1>4, <1>5, <1>25, <2>0 DEF ReturnChunk, parserVars, SlotsLineUp, SlotsCounted, LoopStatus, ParserPosition, InCall, Live, Filling, InRow, ContainsRow, HasDatum
  <2>4. FilledToEnd'
    <3> SUFFICES ASSUME Filling', size = 0, pc' = "done"
                 PROVE  Len(output') + range.beg.row = range.end.row
      BY <2>0, <2>6 DEF FilledToEnd
    <3>1. Filling
      BY <2>0 DEF Filling
    <3>2. last_row + 1 >= range.end.row
      BY <1>2, <1>4, <2>6, <3>1 DEF FilledToEnd
    <3>3. last_row = range.beg.row - 1 + Len(output) + size
      BY <1>2, <2>6, <3>1 DEF RowsCounted
    <3>4. Len(output') = Len(output) + size
      BY <2>7
    <3>5. last_row + 1 = range.beg.row + Len(output)
      BY <1>6, <3>3
    <3>6. Len(output') + range.beg.row >= range.end.row
      BY <1>6, <3>2, <3>4, <3>5
    <3>7. last_row < range.end.row
      BY <1>3
    <3> QED
      BY <1>6, <3>4, <3>5, <3>6, <3>7
  <2>5. RowsLineUp' /\ NothingStale'
    <3>1. ASSUME NEW i \in 1 .. Len(output'), NEW c \in RangeCols
          PROVE  /\ output'[i][c].kind # "stale"
                 /\ HasDatum(output'[i][c]) => /\ output'[i][c].row = range.beg.row + i - 1
                                               /\ output'[i][c].col = c
      <4>1. CASE i <= Len(output)
        <5>1. i \in 1 .. Len(output)
          BY <1>6, <4>1
        <5>2. output'[i] = output[i]
          BY <2>7, <5>1
        <5> QED
          BY <1>2, <5>1, <5>2 DEF RowsLineUp, NothingStale
      <4>2. CASE i > Len(output)
        <5> DEFINE s == i - Len(output) - 1
        <5>1. s \in Slots /\ s < size
          BY <1>3, <1>4, <2>7, <4>2 DEF Slots
        <5>2. output'[i][c] = CastValue(chunk[s][c], c)
          BY <2>7, <4>2
        <5>3. /\ chunk[s][c].kind # "stale"
              /\ HasDatum(chunk[s][c]) => /\ chunk[s][c].row = range.beg.row + Len(output) + s
                                          /\ chunk[s][c].col = c
          BY <1>2, <2>6, <5>1 DEF SlotsLineUp
        <5>4. range.beg.row + Len(output) + s = range.beg.row + i - 1
          BY <1>6, SMTT(60)
        <5> HIDE DEF s
        <5> QED
          BY <5>2, <5>3, <5>4 DEF CastValue, HasDatum, Null
      <4> QED
        BY <1>3, <2>7, <4>1, <4>2
    <3> QED
      BY <2>0, <3>1 DEF RowsLineUp, NothingStale, HasDatum
  <2> QED
    BY <1>1, <2>1, <2>2, <2>3, <2>4, <2>5 DEF ScanInv
<1>30. CASE UNCHANGED vars
  <2>0. RangeCols' = RangeCols /\ range' = range /\ opts' = opts
    BY <1>30, FixedFacts DEF vars
  <2>1. RowsCounted' /\ ParserPosition' /\ FilledToEnd'
    BY <1>2, <1>30, <2>0 DEF vars, parserVars, RowsCounted, ParserPosition, FilledToEnd, InCall, Live, Filling, InRow, ContainsRow
  <2>2. SlotsLineUp'
    BY <1>2, <1>30, <2>0 DEF vars, parserVars, SlotsLineUp, InCall, Live, InRow, ContainsRow, HasDatum
  <2>3. RowsLineUp' /\ NothingStale'
    BY <1>2, <1>30, <2>0 DEF vars, RowsLineUp, NothingStale
  <2> QED
    BY <1>1, <2>1, <2>2, <2>3 DEF ScanInv
<1> QED
  BY <1>11, <1>12, <1>13, <1>14, <1>15, <1>16, <1>17, <1>18, <1>19, <1>20, <1>21, <1>22, <1>23, <1>24, <1>25, <1>30 DEF Next, Loop, Callback, Terminated

LEMMA ScanInit == Init => ScanInv
<1> SUFFICES ASSUME Init PROVE ScanInv
  OBVIOUS
<1>1. CoreInv
  BY CoreInit
<1>2. /\ range.beg.row \in 1 .. MaxRow + 1 /\ range.end.row \in 1 .. MaxRow + 1
      /\ MaxRow \in Nat /\ range.beg.row <= range.end.row
  BY ScanAssumption DEF Init, Ranges
<1>3. output = << >> /\ Len(output) = 0
  BY DEF Init
<1>4. RowsCounted /\ FilledToEnd /\ SlotsLineUp
  BY <1>2, <1>3 DEF Init, RowsCounted, FilledToEnd, SlotsLineUp, InCall
<1>5. ParserPosition
  BY <1>2 DEF Init, ParserPosition, InRow
<1>6. RowsLineUp /\ NothingStale
  BY <1>3 DEF RowsLineUp, NothingStale
<1> QED
  BY <1>1, <1>4, <1>5, <1>6 DEF ScanInv

(* Every callback and every step of the loop keeps the parser, the rows      *)
(* written and the rows delivered in step.                                   *)
THEOREM ScanCorrect ==
    ASSUME NoSelfClosing
    PROVE  Spec => []ScanInv
<1>1. Init => ScanInv
  BY ScanInit
<1>2. ScanInv /\ [Next]_vars => ScanInv'
  BY ScanStep
<1> QED
  BY <1>1, <1>2, PTL DEF Spec

(* Chunks, blocks, gaps and suspensions never shift a row: what the i-th row *)
(* of the output holds was read from the i-th row of the range and from the  *)
(* column it is in; nothing left in a reused vector is ever returned.        *)
THEOREM RowsStayAligned ==
    ASSUME NoSelfClosing
    PROVE  Spec => [](RowsLineUp /\ NothingStale)
<1>1. ScanInv => RowsLineUp /\ NothingStale
  BY DEF ScanInv
<1> QED
  BY <1>1, ScanCorrect, PTL

(* A scan of an explicit range that runs to its end has returned one row for *)
(* every row of the range, whichever of them the worksheet contains.         *)
THEOREM ExplicitRangesAreComplete ==
    ASSUME NoSelfClosing
    PROVE  Spec => []ExplicitRangeComplete
<1>1. ScanInv => ExplicitRangeComplete
  <2> SUFFICES ASSUME ScanInv, pc = "done", Filling
               PROVE  Len(output) = range.end.row - range.beg.row
    BY DEF ExplicitRangeComplete, Filling
  <2>1. Len(output) + range.beg.row = range.end.row
    BY DEF ScanInv, FilledToEnd
  <2>2. range.beg.row \in Nat /\ Len(output) \in Nat
    <3>1. TypeOK
      BY DEF ScanInv, CoreInv
    <3>2. output \in Seq([RangeCols -> Value(ChunkKinds)])
      BY <3>1 DEF TypeOK
    <3> QED
      BY <3>1, <3>2, SheetFacts
  <2>3. range.end.row \in Nat
    BY SheetFacts DEF ScanInv, CoreInv
  <2> QED
    BY <2>1, <2>2, <2>3
<1> QED
  BY <1>1, ScanCorrect, PTL

-----------------------------------------------------------------------------
(***************************************************************************)
(* No datum of a worksheet is lost, repeated, reordered or attributed to   *)
(* the wrong cell by the streaming scan, whatever the chunks, blocks, gaps *)
(* and suspensions, for every worksheet, those with <row r="5"/> elements  *)
(* included.                                                               *)
(***************************************************************************)

(* What a raw value says about the worksheet cell it came from.              *)
LEMMA RawFacts ==
    ASSUME TypeOK, NEW r, NEW c \in RangeCols
    PROVE  /\ RawValue(r, c).kind # "stale"
           /\ HasDatum(RawValue(r, c)) => /\ r \in Rows
                                          /\ RawValue(r, c) = Datum(sheet[r].cells[c], r, c)
           /\ (r \in Rows /\ HasData(sheet[r].cells[c])) =>
                RawValue(r, c) = Datum(sheet[r].cells[c], r, c)
           /\ (r \in Rows /\ sheet[r].cells[c] = "absent") => RawValue(r, c) = Null
<1>1. \A k \in Rows : sheet[k].cells[c] # "stale"
  BY SheetFacts DEF RowElements, CellKinds, RangeCols
<1> QED
  BY <1>1 DEF RawValue, CellValue, HasDatum, HasData, Datum, Null

(* Operators that depend on the worksheet, the range and the options only.   *)
LEMMA FixedData ==
    ASSUME UNCHANGED fixedVars
    PROVE  /\ Rows' = Rows /\ RangeCols' = RangeCols /\ opts' = opts /\ range' = range
           /\ sheet' = sheet /\ Slots' = Slots
           /\ \A r, c : RawValue(r, c)' = RawValue(r, c)
           /\ \A r : ContainsRow(r)' <=> ContainsRow(r)
<1>1. /\ Rows' = Rows /\ RangeCols' = RangeCols /\ opts' = opts /\ range' = range
      /\ sheet' = sheet
      /\ \A r : ContainsRow(r)' <=> ContainsRow(r)
  BY FixedFacts
<1> QED
  BY <1>1 DEF RawValue, Slots

(* A step that changes neither the chunk nor the parser's place in the       *)
(* document keeps DataInv, unless it aborts the parser before its end.       *)
LEMMA DataFrame ==
    ASSUME DataInv,
           UNCHANGED <<fixedVars, chunk, size, sheet_row_number, out_index, last_col,
                       is_row_empty, cell_pos, state, output, curr_row>>,
           pc' = "failed" \/ ((InCall' <=> InCall) /\ pc # "failed"),
           InCall' => InCall,
           Live' => Live,
           state = "ROW" => xml' # "ABORTED",
           xml' = "SUSPENDED" => xml = "SUSPENDED",
           (~opts.stop_at_empty /\ ~Live') => \A r \in Rows : Finished(r),
           pc' = "done" => ~Live',
           ErrorNamesCell'
    PROVE  DataInv'
<1>1. /\ Rows' = Rows /\ RangeCols' = RangeCols /\ opts' = opts /\ range' = range
      /\ sheet' = sheet /\ Slots' = Slots
      /\ \A r, c : RawValue(r, c)' = RawValue(r, c)
      /\ \A r : ContainsRow(r)' <=> ContainsRow(r)
  BY FixedData
<1>2. SlotsHoldRows /\ RowInProgress /\ DataInOrder /\ DataComplete
  BY DEF DataInv
<1>3. \A r : Finished(r)' <=> Finished(r)
  BY DEF Finished
<1>4. SlotsHoldRows'
  BY <1>1, <1>2, <1>3 DEF SlotsHoldRows, HoldsRow
<1>5. RowInProgress'
  <2>1. InRow' <=> InRow
    BY <1>1 DEF InRow
  <2>2. \A c : Kind(c)' = Kind(c)
    BY <1>1 DEF Kind
  <2> QED
    BY <1>1, <1>2, <2>1, <2>2 DEF RowInProgress
<1>6. DataInOrder'
  BY <1>1, <1>2, <1>3 DEF DataInOrder, DeliveredFinished, DeliveredInOrder, SlotsInOrder, HasDatum
<1>7. DataComplete'
  BY <1>1, <1>2, <1>3 DEF DataComplete, Kept
<1> QED
  BY <1>4, <1>5, <1>6, <1>7 DEF DataInv
(* A step that appends padded rows to the chunk keeps DataInv: SkipRows and  *)
(* FillRows.                                                                 *)
LEMMA DataPad ==
    ASSUME DataInv, TypeOK, InCall, InCall', pc # "failed",
           UNCHANGED <<fixedVars, status, xml, last_col, is_row_empty, cell_pos, state, output,
                       error>>,
           pc' # "done",
           size \in Nat, size' \in Nat, size <= size',
           \A s \in Slots : s < size =>
              chunk'[s] = chunk[s] /\ sheet_row_number'[s] = sheet_row_number[s],
           \A s \in Slots, c \in RangeCols : (~(s < size) /\ s < size') => chunk'[s][c] = Null,
           (InRow /\ Live) => last_col = range.beg.col - 1
    PROVE  DataInv'
<1>1. /\ Rows' = Rows /\ RangeCols' = RangeCols /\ opts' = opts /\ range' = range
      /\ sheet' = sheet /\ Slots' = Slots
      /\ \A r, c : RawValue(r, c)' = RawValue(r, c)
      /\ \A r : ContainsRow(r)' <=> ContainsRow(r)
  BY FixedData
<1>2. SlotsHoldRows /\ RowInProgress /\ DataInOrder /\ DataComplete /\ ErrorNamesCell
  BY DEF DataInv
<1>3. /\ \A r : Finished(r)' <=> Finished(r)
      /\ InRow' <=> InRow
      /\ Live' <=> Live
  BY <1>1 DEF Finished, InRow, Live
<1>4. \A s \in Slots : s \in Int
  BY ScanAssumption DEF Slots
<1>5. SlotsHoldRows'
  BY <1>1, <1>2, <1>3 DEF SlotsHoldRows, HoldsRow
<1>6. RowInProgress'
  <2>1. \A c : Kind(c)' = Kind(c)
    BY <1>1 DEF Kind
  <2>2. \A c \in RangeCols : (InRow /\ Live) => ~(c <= last_col)
    <3>1. \A c \in RangeCols : c \in Int /\ range.beg.col <= c /\ range.beg.col \in Int
      BY SheetFacts DEF RangeCols, ContainsCol, Cols
    <3> QED
      BY <3>1
  <2> QED
    BY <1>1, <1>2, <1>3, <2>1, <2>2 DEF RowInProgress
<1>7. DataInOrder'
  <2>1. ~HasDatum(Null)
    BY DEF HasDatum, Null
  <2>2. DeliveredFinished' /\ DeliveredInOrder'
    BY <1>1, <1>2, <1>3 DEF DataInOrder, DeliveredFinished, DeliveredInOrder, HasDatum
  <2>3. \A s \in Slots, c \in RangeCols :
           (s < size' /\ HasDatum(chunk'[s][c])) => s < size /\ chunk'[s] = chunk[s]
    BY <2>1
  <2>4. SlotsInOrder'
    BY <1>1, <1>2, <2>3 DEF DataInOrder, SlotsInOrder, HasDatum
  <2> QED
    BY <2>2, <2>4 DEF DataInOrder
<1>8. DataComplete'
  <2>1. \A r, c : (c \in RangeCols /\ Kept(r, c)) => Kept(r, c)'
    <3> SUFFICES ASSUME NEW r, NEW c \in RangeCols, Kept(r, c) PROVE Kept(r, c)'
      OBVIOUS
    <3>1. CASE \E i \in 1 .. Len(output) : output[i][c] = Datum("good", r, c)
      BY <3>1 DEF Kept, Datum
    <3>2. CASE \E s \in Slots : s < size /\ chunk[s][c] = Datum("good", r, c)
      <4>1. PICK s \in Slots : s < size /\ chunk[s][c] = Datum("good", r, c)
        BY <3>2
      <4>2. s < size' /\ chunk'[s] = chunk[s]
        BY <1>4, <4>1
      <4> QED
        BY <1>1, <4>1, <4>2 DEF Kept, Datum
    <3> QED
      BY <3>1, <3>2 DEF Kept
  <2> QED
    BY <1>1, <1>2, <1>3, <2>1 DEF DataComplete
<1>9. ErrorNamesCell'
  BY <1>1, <1>2 DEF ErrorNamesCell, NoRef, ContainsPos, ContainsCol
<1> QED
  BY <1>5, <1>6, <1>7, <1>8, <1>9 DEF DataInv

(* Appending a sequence keeps what was there and adds the rest behind it.    *)
LEMMA Concatenation ==
    ASSUME NEW S, NEW s \in Seq(S), NEW t \in Seq(S)
    PROVE  /\ s \o t \in Seq(S) /\ Len(s \o t) = Len(s) + Len(t)
           /\ \A i \in 1 .. Len(s) : (s \o t)[i] = s[i]
           /\ \A i \in 1 .. Len(s \o t) : i > Len(s) => (s \o t)[i] = t[i - Len(s)]
  OBVIOUS

(* The rows a returned chunk adds to the output.                             *)
LEMMA ReturnedRows ==
    ASSUME TypeOK, ReturnChunk
    PROVE  /\ Len(output) \in Nat /\ size \in Nat /\ Len(output') = Len(output) + size
           /\ \A i \in 1 .. Len(output) : output'[i] = output[i]
           /\ \A i \in 1 .. Len(output') : i > Len(output) =>
                /\ i - Len(output) - 1 \in Slots /\ i - Len(output) - 1 < size
                /\ output'[i] = [c \in RangeCols |-> CastValue(chunk[i - Len(output) - 1][c], c)]
<1>1. /\ size \in 0 .. VectorSize /\ VectorSize \in Nat \ {0} /\ MaxRow \in Nat /\ MaxCol \in Nat
      /\ output \in Seq([RangeCols -> Value(ChunkKinds)])
      /\ chunk \in [Slots -> [RangeCols -> Value(ChunkKinds)]]
  BY ScanAssumption DEF TypeOK
<1> DEFINE rows == [i \in 1 .. size |-> [c \in RangeCols |-> CastValue(chunk[i - 1][c], c)]]
<1>2. \A i \in 1 .. size : i - 1 \in Slots
  BY <1>1 DEF Slots
<1>3. Null \in Value(ChunkKinds)
  BY <1>1 DEF Null, Value, ChunkKinds
<1>4. \A i \in 1 .. size : rows[i] \in [RangeCols -> Value(ChunkKinds)]
  BY <1>1, <1>2, <1>3 DEF CastValue
<1>5. /\ rows \in Seq([RangeCols -> Value(ChunkKinds)]) /\ Len(rows) = size
      /\ \A i \in 1 .. size : rows[i] = [c \in RangeCols |-> CastValue(chunk[i - 1][c], c)]
  BY <1>1, <1>4
<1>6. output' = output \o rows
  BY DEF ReturnChunk
<1> HIDE DEF rows
<1>7. /\ Len(output) \in Nat /\ size \in Nat /\ Len(output') = Len(output) + size
      /\ \A i \in 1 .. Len(output) : output'[i] = output[i]
  <2>1. Len(output) \in Nat /\ size \in Nat
    BY <1>1
  <2>2. Len(output') = Len(output) + size
    BY <1>1, <1>5, <1>6, Concatenation
  <2>3. \A i \in 1 .. Len(output) : output'[i] = output[i]
    BY <1>1, <1>5, <1>6, Concatenation
  <2> QED
    BY <2>1, <2>2, <2>3
<1>8. ASSUME NEW i \in 1 .. Len(output'), i > Len(output)
      PROVE  /\ i - Len(output) - 1 \in Slots /\ i - Len(output) - 1 < size
             /\ output'[i] = [c \in RangeCols |-> CastValue(chunk[i - Len(output) - 1][c], c)]
  <2>1. i - Len(output) \in 1 .. size
    BY <1>7, <1>8
  <2>2. output'[i] = rows[i - Len(output)]
    BY <1>1, <1>5, <1>6, <1>7, <1>8
  <2>3. i - Len(output) - 1 \in Slots /\ i - Len(output) - 1 < size
    BY <1>1, <1>7, <2>1 DEF Slots
  <2> QED
    BY <1>5, <2>1, <2>2, <2>3
<1> QED
  BY <1>7, <1>8

(* The end of a row that is kept: its columns are in the next slot, those    *)
(* the row does not mention are NULL, and the slot is mapped to the row.     *)
LEMMA EndRowWrites ==
    ASSUME CoreInv, DataInv, EndRow, ContainsRow(cell_pos.row),
           ~(opts.stop_at_empty /\ is_row_empty)
    PROVE  /\ size \in Slots /\ size' = size + 1 /\ xml' # "ABORTED"
           /\ \A s \in Slots : s < size =>
                chunk'[s] = chunk[s] /\ sheet_row_number'[s] = sheet_row_number[s]
           /\ sheet_row_number'[size] = cell_pos.row
           /\ \A c \in RangeCols : chunk'[size][c] = RawValue(cell_pos.row, c)
<1>1. /\ TypeOK /\ SlotsCounted /\ RowBounds /\ LoopStatus /\ RowInProgress
  BY DEF CoreInv, DataInv
<1>2. /\ size \in 0 .. VectorSize /\ out_index \in 0 .. VectorSize - 1 /\ VectorSize \in Nat \ {0}
      /\ last_col \in 0 .. MaxCol /\ cell_pos.col \in 0 .. MaxCol /\ MaxCol \in Nat
      /\ chunk \in [Slots -> [RangeCols -> Value(ChunkKinds)]]
      /\ sheet_row_number \in [Slots -> 0 .. MaxRow]
  BY <1>1, ScanAssumption DEF TypeOK, Slots
<1>3. \A s \in Slots : s \in Nat
  BY <1>2 DEF Slots
<1>4. pc = "parse" /\ state = "ROW" /\ InCall /\ NoMoreCells /\ OnEndRow(cell_pos.row)
  BY DEF EndRow, MayCallBack, InCall
<1>5. Live /\ xml # "ABORTED" /\ size # VectorSize /\ out_index = size /\ cell_pos.row \in Rows
  BY <1>1, <1>4 DEF RowInProgress, LoopStatus, SlotsCounted, Live, RowBounds
<1>6. /\ chunk' = [chunk EXCEPT ![out_index] =
                    [d \in RangeCols |-> IF last_col < d THEN Null ELSE chunk[out_index][d]]]
      /\ sheet_row_number' = [sheet_row_number EXCEPT ![out_index] = cell_pos.row]
      /\ size' = size + 1 /\ xml' # "ABORTED"
  BY <1>4, <1>5 DEF OnEndRow
<1>7. size \in Slots
  BY <1>2, <1>5 DEF Slots
<1>8. /\ \A s \in Slots : s < size =>
           chunk'[s] = chunk[s] /\ sheet_row_number'[s] = sheet_row_number[s]
      /\ \A c \in RangeCols : chunk'[size][c] = IF last_col < c THEN Null ELSE chunk[size][c]
      /\ sheet_row_number'[size] = cell_pos.row
  BY <1>2, <1>3, <1>5, <1>6, <1>7
<1>9. InRow
  BY <1>4 DEF InRow
<1>10. ASSUME NEW c \in RangeCols PROVE chunk'[size][c] = RawValue(cell_pos.row, c)
  <2>1. c \in Cols /\ c \in Int
    BY <1>2 DEF RangeCols, Cols
  <2>2. CASE last_col < c
    <3>1. Kind(c) = "absent"
      BY <1>1, <1>2, <1>4, <1>9, <2>1, <2>2 DEF RowInProgress, NoMoreCells
    <3> QED
      BY <1>1, <1>5, <1>8, <2>2, <3>1, RawFacts DEF Kind
  <2>3. CASE ~(last_col < c)
    <3>1. c <= last_col
      BY <1>2, <2>1, <2>3
    <3> QED
      BY <1>1, <1>4, <1>5, <1>8, <1>9, <2>3, <3>1 DEF RowInProgress
  <2> QED
    BY <2>2, <2>3
<1> QED
  BY <1>6, <1>7, <1>8, <1>10

(* Every callback and every step of the loop keeps what is known about the   *)
(* data of the chunk and of the output.                                      *)
LEMMA DataStep ==
    ASSUME CoreInv, DataInv, [Next]_vars
    PROVE  DataInv'
<1>1. /\ TypeOK /\ SlotsCounted /\ RowBounds /\ LoopStatus
      /\ SlotsHoldRows /\ RowInProgress /\ DataInOrder /\ DataComplete /\ ErrorNamesCell
  BY DEF CoreInv, DataInv
<1>2. /\ size \in 0 .. VectorSize /\ out_index \in 0 .. VectorSize - 1 /\ VectorSize \in Nat \ {0}
      /\ last_col \in 0 .. MaxCol /\ last_row \in 0 .. MaxRow /\ curr_row \in 1 .. MaxRow + 1
      /\ cell_pos.row \in 0 .. MaxRow /\ cell_pos.col \in 0 .. MaxCol
      /\ MaxRow \in Nat \ {0} /\ MaxCol \in Nat \ {0}
      /\ chunk \in [Slots -> [RangeCols -> Value(ChunkKinds)]]
      /\ output \in Seq([RangeCols -> Value(ChunkKinds)]) /\ Len(output) \in Nat
      /\ status \in {"OK", "SUSPENDED", "ABORTED"} /\ xml \in {"OK", "SUSPENDED", "ABORTED"}
      /\ state \in {"SHEETDATA", "ROW"}
  BY <1>1, ScanAssumption DEF TypeOK, Slots
<1>3. /\ range.beg.row \in 1 .. MaxRow + 1 /\ range.end.row \in 1 .. MaxRow + 1
      /\ range.beg.col \in 1 .. MaxCol /\ range.end.col \in 2 .. MaxCol + 1
      /\ range.beg.col < range.end.col
      /\ Rows \subseteq 1 .. MaxRow
      /\ RangeCols = range.beg.col .. range.end.col - 1
  BY <1>1, SheetFacts DEF Cols
<1>4. \A s \in Slots : s \in Nat
  BY <1>2 DEF Slots
<1>10. UNCHANGED fixedVars
  BY DEF Next, Loop, Callback, vars, Call, SkipRows, StopAtSkippedRow, Resume, ReadBlock, LeaveLoop,
         BeginRow, Cell, CellThrows, EndRow, EndSheetData, ParserReturns, FillRows, CastThrows,
         ReturnChunk, Terminated
<1>11. /\ Rows' = Rows /\ RangeCols' = RangeCols /\ opts' = opts /\ range' = range
       /\ sheet' = sheet /\ Slots' = Slots
       /\ \A r, c : RawValue(r, c)' = RawValue(r, c)
       /\ \A r : ContainsRow(r)' <=> ContainsRow(r)
  BY <1>10, FixedData
<1>12. error' = error => ErrorNamesCell'
  BY <1>1, <1>11 DEF ErrorNamesCell, NoRef, ContainsPos, ContainsCol
<1>21. CASE Call
  <2>1. /\ pc = "idle" /\ pc' = "loop" /\ size' = 0 /\ ~InCall /\ InCall'
        /\ UNCHANGED <<status, xml, state, cell_pos, last_col, is_row_empty, output, error>>
    BY <1>21 DEF Call, InCall
  <2>2. /\ InRow' <=> InRow
        /\ Live' <=> Live
        /\ \A r : Finished(r)' <=> Finished(r)
        /\ \A c : Kind(c)' = Kind(c)
    BY <1>11, <2>1 DEF InRow, Live, Finished, Kind
  <2>3. SlotsHoldRows' /\ SlotsInOrder'
    BY <1>4, <1>11, <2>1 DEF SlotsHoldRows, SlotsInOrder
  <2>4. RowInProgress'
    <3>1. (InRow /\ Live) => last_col = range.beg.col - 1
      BY <1>1, <2>1 DEF LoopStatus, RowInProgress, InRow, Live
    <3>2. \A c \in RangeCols : (InRow /\ Live) => ~(c <= last_col)
      BY <1>3, <3>1
    <3> QED
      BY <1>1, <1>11, <2>1, <2>2, <3>2 DEF RowInProgress
  <2>5. DeliveredFinished' /\ DeliveredInOrder'
    BY <1>1, <1>11, <2>1, <2>2 DEF DataInOrder, DeliveredFinished, DeliveredInOrder, HasDatum
  <2>6. DataComplete'
    BY <1>1, <1>11, <2>1, <2>2 DEF DataComplete, Kept
  <2> QED
    BY <1>12, <2>1, <2>3, <2>4, <2>5, <2>6 DEF DataInv, DataInOrder
<1>22. CASE SkipRows
  <2>1. /\ pc = "loop" /\ pc' = pc /\ InCall /\ InCall' /\ size # VectorSize /\ status = "SUSPENDED"
        /\ UNCHANGED <<status, xml, last_col, is_row_empty, cell_pos, state, output, error>>
    BY <1>22 DEF SkipRows, InCall
  <2>2. xml = "SUSPENDED" /\ Live /\ out_index = size
    BY <1>1, <1>2, <2>1 DEF LoopStatus, SlotsCounted, Live
  <2>3. SkippedRows \in Nat /\ size' = size + SkippedRows
    BY <1>2, <1>22, <2>2 DEF SkipRows, SkippedRows, FoundSkippedRow, Lesser
  <2>4. /\ \A s \in Slots : s < size =>
              chunk'[s] = chunk[s] /\ sheet_row_number'[s] = sheet_row_number[s]
        /\ \A s \in Slots, c \in RangeCols : (~(s < size) /\ s < size') => chunk'[s][c] = Null
    BY <1>2, <1>4, <1>22, <2>2, <2>3 DEF SkipRows, PutNullRows, MapRows, NullRow
  <2>5. (InRow /\ Live) => last_col = range.beg.col - 1
    BY <1>1, <2>2 DEF RowInProgress
  <2>6. size \in Nat /\ size' \in Nat /\ size <= size'
    BY <1>2, <2>3
  <2> QED
    BY <1>1, <1>10, <2>1, <2>4, <2>5, <2>6, DataPad
<1>23. CASE StopAtSkippedRow
  <2>1. /\ UNCHANGED <<parserVars, output, error>> /\ opts.stop_at_empty
        /\ pc' = "fill" /\ pc = "loop" /\ status' = "ABORTED"
    BY <1>23 DEF StopAtSkippedRow
  <2> QED
    BY <1>1, <1>10, <1>12, <2>1, DataFrame DEF parserVars, InCall, Live, RowInProgress
<1>24. CASE Resume
  <2>1. /\ UNCHANGED <<status, chunk, size, sheet_row_number, out_index, last_col, is_row_empty,
                       cell_pos, state, output, curr_row, error>>
        /\ pc' = "parse" /\ pc = "loop" /\ xml' = "OK" /\ status = "SUSPENDED"
    BY <1>24 DEF Resume
  <2>2. Live /\ Live'
    BY <1>1, <2>1 DEF Live, LoopStatus
  <2> QED
    BY <1>1, <1>10, <1>12, <2>1, <2>2, DataFrame DEF InCall
<1>25. CASE ReadBlock
  <2>1. UNCHANGED <<parserVars, status, output, error>> /\ pc' = "parse" /\ pc = "loop"
    BY <1>25 DEF ReadBlock
  <2> QED
    BY <1>1, <1>10, <1>12, <2>1, DataFrame DEF parserVars, InCall, Live, RowInProgress, DataComplete
<1>26. CASE LeaveLoop
  <2>1. UNCHANGED <<parserVars, status, output, error>> /\ pc' = "fill" /\ pc = "loop"
    BY <1>26 DEF LeaveLoop
  <2> QED
    BY <1>1, <1>10, <1>12, <2>1, DataFrame DEF parserVars, InCall, Live, RowInProgress, DataComplete
<1>27. CASE BeginRow
  <2>1. PICK r \in Rows : IsNextRow(r) /\ cell_pos' = [row |-> r, col |-> 0] /\ OnBeginRow(r)
    BY <1>27 DEF BeginRow
  <2>2. /\ pc = "parse" /\ pc' = "parse" /\ state = "SHEETDATA" /\ state' = "ROW" /\ xml = "OK"
        /\ UNCHANGED <<status, chunk, size, sheet_row_number, out_index, output, error>>
    BY <1>27 DEF BeginRow, MayCallBack, InsideToken
  <2>3. /\ r \in 1 .. MaxRow /\ r > cell_pos.row /\ cell_pos'.row = r /\ cell_pos'.col = 0
        /\ \A q \in Rows : q > cell_pos.row => r <= q
    BY <1>3, <2>1 DEF IsNextRow
  <2>4. /\ \A q \in Rows : Finished(q)' <=> Finished(q)
        /\ \A q \in Int : Finished(q) => Finished(q)'
    BY <1>2, <1>3, <2>2, <2>3 DEF Finished
  <2>5. SlotsHoldRows'
    BY <1>1, <1>11, <2>2, <2>4 DEF SlotsHoldRows, HoldsRow, InCall
  <2>6. RowInProgress'
    <3>1. InRow' => last_col' = range.beg.col - 1 /\ is_row_empty'
      BY <1>11, <2>1, <2>3 DEF InRow, OnBeginRow
    <3>2. \A c \in RangeCols : ~(c <= range.beg.col - 1) /\ ~(c <= 0)
      BY <1>3
    <3>3. xml' # "ABORTED"
      BY <2>1, <2>2 DEF OnBeginRow
    <3> QED
      BY <1>11, <2>3, <3>1, <3>2, <3>3 DEF RowInProgress
  <2>7. DataInOrder'
    <3>1. \A i \in 1 .. Len(output), c \in RangeCols : output[i][c].row \in Int
      BY <1>2 DEF Value
    <3> QED
      BY <1>1, <1>11, <2>2, <2>4, <3>1
      DEF DataInOrder, DeliveredFinished, DeliveredInOrder, SlotsInOrder, HasDatum, InCall
  <2>8. DataComplete'
    <3>1. Live' /\ InCall /\ InCall'
      BY <1>1, <2>1, <2>2 DEF LoopStatus, Live, OnBeginRow, InCall
    <3> QED
      BY <1>1, <1>11, <2>2, <2>4, <3>1 DEF DataComplete, Kept
  <2> QED
    BY <1>12, <2>2, <2>5, <2>6, <2>7, <2>8 DEF DataInv
<1>28. CASE Cell
  <2>1. PICK c \in Cols : /\ IsNextCell(c) /\ cell_pos' = [row |-> cell_pos.row, col |-> c]
                          /\ OnCell(c)
    BY <1>28 DEF Cell
  <2>2. /\ pc = "parse" /\ pc' = "parse" /\ state = "ROW" /\ state' = "ROW" /\ InCall /\ InCall'
        /\ UNCHANGED <<status, xml, size, sheet_row_number, out_index, output, error>>
    BY <1>28 DEF Cell, MayCallBack, InCall
  <2>3. /\ cell_pos.row \in Rows /\ c \in 1 .. MaxCol
        /\ cell_pos'.row = cell_pos.row /\ cell_pos'.col = c
        /\ c > cell_pos.col /\ Kind(c) # "absent"
        /\ \A d \in Cols : (d > cell_pos.col /\ Kind(d) # "absent") => c <= d
    BY <1>1, <2>1, <2>2 DEF RowBounds, IsNextCell, Cols
  <2>4. Live /\ Live' /\ xml # "ABORTED" /\ size # VectorSize /\ out_index = size
    BY <1>1, <2>2 DEF RowInProgress, LoopStatus, SlotsCounted, Live
  <2>5. /\ \A q : Finished(q)' <=> Finished(q)
        /\ \A d : Kind(d)' = Kind(d)
        /\ InRow' <=> InRow
    BY <1>11, <2>2, <2>3 DEF Finished, Kind, InRow
  <2>6. \A s \in Slots : s < size => chunk'[s] = chunk[s]
    BY <1>2, <1>4, <2>1, <2>4 DEF OnCell
  <2>7. SlotsHoldRows'
    BY <1>1, <1>11, <2>2, <2>5, <2>6 DEF SlotsHoldRows, HoldsRow
  <2>8. xml = "OK"
    <3>1. Kind(c) # "absent" /\ sheet[cell_pos.row] \in RowElements
      BY <1>1, <2>3, SheetFacts
    <3>2. ~sheet[cell_pos.row].selfclosing
      BY <2>3, <3>1 DEF RowElements, Kind, Cols
    <3> QED
      BY <1>28, <3>2 DEF Cell, MayCallBack, InsideToken
  <2>9. InRow => \A d \in RangeCols : (last_col < d /\ d < c) => Kind(d) = "absent"
    <3> SUFFICES ASSUME InRow, NEW d \in RangeCols, last_col < d, d < c PROVE Kind(d) = "absent"
      OBVIOUS
    <3>1. d \in Cols /\ d \in Int
      BY <1>3 DEF RangeCols
    <3>2. CASE d <= cell_pos.col
      BY <1>1, <3>2 DEF RowInProgress
    <3>3. CASE d > cell_pos.col
      BY <1>2, <2>3, <3>1, <3>3
    <3> QED
      BY <1>2, <3>1, <3>2, <3>3
  <2>10. RowInProgress'
    <3>1. CASE ~ContainsPos(cell_pos.row, c)
      <4>1. UNCHANGED <<chunk, is_row_empty, last_col>>
        BY <2>1, <3>1 DEF OnCell
      <4>2. InRow => c \notin RangeCols
        BY <3>1 DEF InRow, ContainsPos, RangeCols
      <4>3. InRow => \A d \in RangeCols : (last_col < d /\ d <= c) => Kind(d) = "absent"
        BY <1>3, <2>3, <2>9, <4>2
      <4>4. InRow => last_col <= c \/ last_col = range.beg.col - 1
        BY <1>1, <1>2, <2>3 DEF RowInProgress
      <4> QED
        BY <1>1, <1>11, <2>2, <2>3, <2>4, <2>5, <2>8, <4>1, <4>3, <4>4 DEF RowInProgress
    <3>2. CASE ContainsPos(cell_pos.row, c)
      <4>1. /\ InRow /\ c \in RangeCols /\ last_col' = c
            /\ is_row_empty' = (is_row_empty /\ ~HasData(Kind(c)))
            /\ \A d \in RangeCols : chunk'[size][d] =
                  IF last_col < d /\ d < c THEN Null
                  ELSE IF d = c THEN CellValue(Kind(c), cell_pos.row, c) ELSE chunk[size][d]
        <5>1. size \in Slots
          BY <1>2, <2>4 DEF Slots
        <5> QED
          BY <1>2, <2>1, <2>2, <2>4, <3>2, <5>1 DEF OnCell, InRow, ContainsPos, RangeCols
      <4>2. last_col < c
        BY SMTT(30), <1>1, <1>2, <1>3, <2>3, <4>1 DEF RowInProgress
      <4>3. \A d \in RangeCols : d \in Int /\ RawValue(cell_pos.row, d) = CellValue(Kind(d), cell_pos.row, d)
        BY <1>3, <2>3 DEF RawValue, Kind
      <4>4. ASSUME NEW d \in RangeCols, d <= c
            PROVE  chunk'[size][d] = RawValue(cell_pos.row, d)
        <5>1. CASE last_col < d /\ d < c
          BY <2>9, <4>1, <4>3, <5>1 DEF CellValue
        <5>2. CASE d = c
          BY <4>1, <4>3, <5>2
        <5>3. CASE d <= last_col /\ d # c
          <6>1. chunk[size][d] = RawValue(cell_pos.row, d)
            BY <1>1, <2>2, <2>4, <4>1, <5>3 DEF RowInProgress
          <6> QED
            BY <1>2, <4>1, <4>3, <5>3, <6>1
        <5> QED
          BY <1>2, <2>3, <4>3, <4>4, <5>1, <5>2, <5>3
      <4>5. is_row_empty' <=> \A d \in RangeCols : d <= c => ~HasData(Kind(d))
        <5>1. is_row_empty <=> \A d \in RangeCols : d <= last_col => ~HasData(Kind(d))
          BY <1>1, <4>1 DEF RowInProgress
        <5>2. \A d \in RangeCols : (last_col < d /\ d < c) => ~HasData(Kind(d))
          BY <2>9, <4>1 DEF HasData
        <5>3. \A d \in RangeCols : (d <= c <=> d <= last_col \/ (last_col < d /\ d < c) \/ d = c)
          BY <1>2, <2>3, <4>2, <4>3
        <5> QED
          BY <4>1, <5>1, <5>2, <5>3
      <4>6. RawValue(cell_pos.row, c)' = RawValue(cell_pos.row, c) /\ range.beg.col \in Int
        BY <1>3, <1>11, <2>3
      <4>7. \A d \in RangeCols : ~(c < d /\ d <= c)
        BY <2>3, <4>3
      <4> QED
        BY <1>11, <2>2, <2>3, <2>4, <2>5, <2>8, <4>1, <4>4, <4>5, <4>7 DEF RowInProgress
    <3> QED
      BY <3>1, <3>2
  <2>11. DataInOrder'
    BY <1>1, <1>11, <2>2, <2>5, <2>6
    DEF DataInOrder, DeliveredFinished, DeliveredInOrder, SlotsInOrder, HasDatum
  <2>12. DataComplete'
    BY <1>1, <1>11, <2>2, <2>4, <2>5, <2>6 DEF DataComplete, Kept
  <2> QED
    BY <1>12, <2>2, <2>7, <2>10, <2>11, <2>12 DEF DataInv
<1>29. CASE CellThrows
  <2>1. UNCHANGED <<parserVars, status, output, error>> /\ pc' = "failed" /\ pc = "parse"
    BY <1>29 DEF CellThrows, MayCallBack
  <2> QED
    BY <1>1, <1>10, <1>12, <2>1, DataFrame DEF parserVars, InCall, Live, RowInProgress, DataComplete
<1>30. CASE EndRow
  <2>0. PICK r \in Rows : r = cell_pos.row
    BY <1>1, <1>30 DEF EndRow, RowBounds
  <2>1. /\ pc = "parse" /\ pc' = "parse" /\ state = "ROW" /\ state' = "SHEETDATA"
        /\ InCall /\ InCall' /\ OnEndRow(r) /\ NoMoreCells
        /\ UNCHANGED <<status, cell_pos, last_col, is_row_empty, output, error>>
    BY <1>30, <2>0 DEF EndRow, MayCallBack, InCall
  <2>2. Live /\ xml # "ABORTED" /\ size # VectorSize /\ out_index = size /\ r \in 1 .. MaxRow
    BY <1>1, <1>3, <2>1 DEF RowInProgress, LoopStatus, SlotsCounted, Live
  <2>3. /\ \A q \in Int : Finished(q)' <=> q <= r
        /\ \A q \in Int : Finished(q) <=> q < r
        /\ ~InRow'
    BY <1>2, <2>0, <2>1 DEF Finished, InRow
  <2>4. RowInProgress'
    BY <2>1, <2>3 DEF RowInProgress
  <2>5. \A i \in 1 .. Len(output), c \in RangeCols : output[i][c].row \in Int
    BY <1>2 DEF Value
  <2>6. DeliveredFinished' /\ DeliveredInOrder'
    <3>1. \A q \in Int : Finished(q) => Finished(q)'
      BY <2>2, <2>3
    <3> QED
      BY <1>1, <1>11, <2>1, <2>5, <3>1
      DEF DataInOrder, DeliveredFinished, DeliveredInOrder, HasDatum
  <2>7. ASSUME UNCHANGED <<chunk, sheet_row_number, size>>
        PROVE  SlotsHoldRows' /\ SlotsInOrder'
    <3>1. \A q \in Rows : Finished(q) => Finished(q)'
      BY <1>3, <2>2, <2>3
    <3> QED
      BY <1>1, <1>11, <2>1, <2>7, <3>1
      DEF DataInOrder, SlotsHoldRows, HoldsRow, SlotsInOrder, HasDatum
  <2>8. CASE ~ContainsRow(r)
    <3>1. UNCHANGED <<xml, chunk, sheet_row_number, size, out_index>>
      BY <2>1, <2>8 DEF OnEndRow
    <3>2. \A q \in Rows : (ContainsRow(q) /\ Finished(q)') => Finished(q)
      BY <1>3, <2>2, <2>3, <2>8
    <3>3. DataComplete'
      BY <1>1, <1>11, <2>1, <2>2, <3>1, <3>2 DEF DataComplete, Kept, Live
    <3> QED
      BY <1>12, <2>1, <2>4, <2>6, <2>7, <3>1, <3>3 DEF DataInv, DataInOrder
  <2>9. CASE ContainsRow(r) /\ opts.stop_at_empty /\ is_row_empty
    <3>1. UNCHANGED <<chunk, sheet_row_number, size, out_index>>
      BY <2>1, <2>9 DEF OnEndRow
    <3>2. DataComplete'
      BY <1>11, <2>1, <2>9 DEF DataComplete
    <3> QED
      BY <1>12, <2>1, <2>4, <2>6, <2>7, <3>1, <3>2 DEF DataInv, DataInOrder
  <2>10. CASE ContainsRow(r) /\ ~(opts.stop_at_empty /\ is_row_empty)
    <3>1. /\ size \in Slots /\ size' = size + 1 /\ xml' # "ABORTED"
          /\ sheet_row_number \in [Slots -> 0 .. MaxRow]
          /\ \A s \in Slots : s < size => chunk'[s] = chunk[s] /\ sheet_row_number'[s] = sheet_row_number[s]
          /\ sheet_row_number'[size] = r
          /\ \A c \in RangeCols : chunk'[size][c] = RawValue(r, c)
      BY <1>1, <1>30, <2>0, <2>10, EndRowWrites DEF TypeOK
    <3>2. \A s \in Slots : s < size' <=> (s < size \/ s = size)
      BY <1>2, <1>4, <3>1
    <3>3. SlotsHoldRows'
      <4>1. \A q \in Rows : Finished(q) => Finished(q)'
        BY <1>3, <2>2, <2>3
      <4>2. Finished(r)'
        BY <2>2, <2>3
      <4> QED
        BY <1>1, <1>11, <2>1, <2>2, <2>10, <3>1, <3>2, <4>1, <4>2 DEF SlotsHoldRows, HoldsRow
    <3>4. ASSUME NEW s \in Slots, NEW c \in RangeCols, s < size, HasDatum(chunk[s][c])
          PROVE  chunk[s][c].row \in Int /\ chunk[s][c].row < r
      <4>1. HoldsRow(s, sheet_row_number[s])
        BY <1>1, <2>1, <3>4 DEF SlotsHoldRows, HasDatum, Null
      <4>2. chunk[s][c].row = sheet_row_number[s]
        BY <1>1, <3>4, <4>1, RawFacts DEF HoldsRow, Datum
      <4>3. sheet_row_number[s] \in Int /\ Finished(sheet_row_number[s])
        BY <3>1, <4>1 DEF HoldsRow
      <4> QED
        BY <2>3, <4>2, <4>3
    <3>5. \A c \in RangeCols : HasDatum(chunk'[size][c]) => chunk'[size][c].row = r
      BY <1>1, <3>1, RawFacts DEF Datum
    <3>6. SlotsInOrder'
      <4> SUFFICES ASSUME NEW s \in Slots, NEW c \in RangeCols, NEW d \in RangeCols,
                          s < size', HasDatum(chunk'[s][c])
                   PROVE  /\ \A i \in 1 .. Len(output) :
                               HasDatum(output[i][d]) => output[i][d].row < chunk'[s][c].row
                          /\ \A t \in Slots : (s < t /\ t < size' /\ HasDatum(chunk'[t][d])) =>
                               chunk'[s][c].row < chunk'[t][d].row
        BY <1>11, <2>1 DEF SlotsInOrder, HasDatum
      <4>1. \A i \in 1 .. Len(output) : HasDatum(output[i][d]) => output[i][d].row < chunk'[s][c].row
        <5>1. CASE s < size
          BY <1>1, <2>1, <3>1, <5>1 DEF DataInOrder, SlotsInOrder
        <5>2. CASE s = size
          BY <1>1, <2>3, <2>5, <3>5, <5>2 DEF DataInOrder, DeliveredFinished
        <5> QED
          BY <3>2, <5>1, <5>2
      <4>2. ASSUME NEW t \in Slots, s < t, t < size', HasDatum(chunk'[t][d])
            PROVE  chunk'[s][c].row < chunk'[t][d].row
        <5>1. s < size /\ (t < size \/ t = size)
          BY <1>2, <1>4, <3>2, <4>2
        <5>2. chunk'[s] = chunk[s] /\ HasDatum(chunk[s][c])
          BY <3>1, <5>1
        <5>3. CASE t < size
          BY <1>1, <2>1, <3>1, <4>2, <5>1, <5>2, <5>3 DEF DataInOrder, SlotsInOrder
        <5>4. CASE t = size
          BY <3>4, <3>5, <4>2, <5>1, <5>2, <5>4
        <5> QED
          BY <5>1, <5>3, <5>4
      <4> QED
        BY <4>1, <4>2
    <3>7. DataComplete'
      <4>1. Live'
        BY <2>1, <2>2, <3>1 DEF Live
      <4>2. ASSUME ~opts.stop_at_empty, NEW q \in Rows, NEW c \in RangeCols,
                   ContainsRow(q), Finished(q)', sheet[q].cells[c] = "good"
            PROVE  Kept(q, c)'
        <5>1. CASE Finished(q)
          <6>1. Kept(q, c)
            BY <1>1, <2>1, <4>2, <5>1 DEF DataComplete
          <6> QED
            BY <1>11, <2>1, <3>1, <3>2, <6>1 DEF Kept, Datum
        <5>2. CASE q = r
          <6>1. chunk'[size][c] = Datum("good", q, c)
            BY <1>1, <3>1, <4>2, <5>2, RawFacts DEF HasData
          <6> QED
            BY <1>11, <2>1, <3>1, <3>2, <6>1 DEF Kept, Datum
        <5> QED
          BY <1>3, <2>2, <2>3, <4>2, <5>1, <5>2
      <4> QED
        BY <1>11, <2>1, <4>1, <4>2 DEF DataComplete
    <3> QED
      BY <1>12, <2>1, <2>4, <2>6, <3>3, <3>6, <3>7 DEF DataInv, DataInOrder
  <2> QED
    BY <2>8, <2>9, <2>10
<1>31. CASE EndSheetData
  <2>1. /\ UNCHANGED <<status, chunk, size, sheet_row_number, out_index, last_col, is_row_empty,
                       cell_pos, state, output, curr_row, error>>
        /\ pc' = "parse" /\ pc = "parse" /\ xml' = "ABORTED" /\ state = "SHEETDATA"
        /\ \A r \in Rows : r <= cell_pos.row
    BY <1>31 DEF EndSheetData, MayCallBack
  <2>2. \A r \in Rows : Finished(r)
    BY <1>2, <1>3, <2>1 DEF Finished
  <2> QED
    BY <1>1, <1>10, <1>12, <2>1, <2>2, DataFrame DEF InCall, Live
<1>32. CASE ParserReturns
  <2>1. /\ UNCHANGED <<parserVars, output, error>> /\ pc' = "loop" /\ pc = "parse" /\ status' = xml
    BY <1>32 DEF ParserReturns
  <2>2. Live' <=> Live
    BY <1>1, <2>1 DEF parserVars, LoopStatus, Live
  <2> QED
    BY <1>1, <1>10, <1>12, <2>1, <2>2, DataFrame DEF parserVars, InCall, RowInProgress, DataComplete
<1>33. CASE FillRows
  <2>1. /\ pc = "fill" /\ pc' = "cast" /\ InCall /\ InCall'
        /\ UNCHANGED <<status, xml, last_col, is_row_empty, cell_pos, state, curr_row, output, error>>
    BY <1>33 DEF FillRows, InCall
  <2>2. Live' <=> Live
    BY <2>1 DEF Live
  <2>3. CASE Filling /\ size # VectorSize
    <3>1. ~Live /\ out_index = size /\ last_row < range.end.row
      BY <1>1, <2>1, <2>3 DEF LoopStatus, SlotsCounted, RowBounds
    <3>2. RowsToFill \in Nat /\ size' = size + RowsToFill
      <4>1. range.end.row - 1 - last_row \in Nat /\ VectorSize - out_index \in Nat
        BY <1>2, <1>3, <3>1
      <4> QED
        BY <1>33, <2>3, <4>1 DEF FillRows, Filling, RowsToFill, Lesser
    <3>3. /\ \A s \in Slots : s < size =>
                chunk'[s] = chunk[s] /\ sheet_row_number'[s] = sheet_row_number[s]
          /\ \A s \in Slots, c \in RangeCols : (~(s < size) /\ s < size') => chunk'[s][c] = Null
      BY <1>2, <1>4, <1>33, <2>3, <3>1, <3>2 DEF FillRows, Filling, PutNullRows, MapRows, NullRow
    <3>4. size \in Nat /\ size' \in Nat /\ size <= size'
      BY <1>2, <3>2
    <3> QED
      BY <1>1, <1>10, <2>1, <3>1, <3>3, <3>4, DataPad
  <2>4. CASE ~(Filling /\ size # VectorSize)
    <3>1. UNCHANGED <<chunk, sheet_row_number, size, out_index>>
      BY <1>33, <2>4 DEF FillRows, Filling
    <3> QED
      BY <1>1, <1>10, <1>12, <2>1, <2>2, <3>1, DataFrame DEF RowInProgress, DataComplete
  <2> QED
    BY <2>3, <2>4
<1>34. CASE CastThrows
  <2>1. /\ UNCHANGED <<parserVars, status, output>> /\ pc' = "failed" /\ pc = "cast" /\ InCall
    BY <1>34 DEF CastThrows, InCall
  <2>2. PICK s \in Slots, c \in RangeCols : CastFails(s, c) /\ error' = GetCellName(s, c)
    BY <1>34 DEF CastThrows
  <2>3. HoldsRow(s, sheet_row_number[s])
    BY <1>1, <2>1, <2>2 DEF SlotsHoldRows, CastFails, Null
  <2>4. /\ error'.row = sheet_row_number[s] /\ error'.col = c
        /\ sheet_row_number[s] \in Rows /\ ContainsRow(sheet_row_number[s])
        /\ ContainsCol(c)
    BY <2>2, <2>3 DEF GetCellName, HoldsRow, RangeCols
  <2>5. sheet[sheet_row_number[s]].cells[c] = "bad"
    <3>1. RawValue(sheet_row_number[s], c).kind = "bad"
      BY <2>2, <2>3 DEF CastFails, HoldsRow
    <3> QED
      BY <1>1, <3>1, RawFacts DEF HasDatum, Datum
  <2>6. ErrorNamesCell'
    BY <1>11, <2>4, <2>5 DEF ErrorNamesCell, ContainsPos, ContainsCol
  <2> QED
    BY <1>1, <1>10, <2>1, <2>6, DataFrame DEF parserVars, InCall, Live, RowInProgress, DataComplete
<1>35. CASE ReturnChunk
  <2>1. /\ pc = "cast" /\ InCall /\ ~InCall' /\ pc' # "failed" /\ (pc' = "done" => size = 0)
        /\ UNCHANGED <<parserVars, status, error>>
    BY <1>35 DEF ReturnChunk, InCall
  <2>2. /\ Len(output) \in Nat /\ size \in Nat /\ Len(output') = Len(output) + size
        /\ \A i \in 1 .. Len(output) : output'[i] = output[i]
        /\ \A i \in 1 .. Len(output') : i > Len(output) =>
             /\ i - Len(output) - 1 \in Slots /\ i - Len(output) - 1 < size
             /\ output'[i] = [c \in RangeCols |-> CastValue(chunk[i - Len(output) - 1][c], c)]
    BY <1>1, <1>35, ReturnedRows
  <2>3. /\ \A r : Finished(r)' <=> Finished(r)
        /\ \A c : Kind(c)' = Kind(c)
        /\ InRow' <=> InRow
        /\ Live' <=> Live
    BY <1>11, <2>1 DEF parserVars, Finished, Kind, InRow, Live
  <2>4. SlotsHoldRows' /\ SlotsInOrder'
    BY <2>1 DEF SlotsHoldRows, SlotsInOrder
  <2>5. RowInProgress'
    BY <1>1, <1>11, <2>1, <2>3 DEF parserVars, RowInProgress
  <2>6. ASSUME NEW i \in 1 .. Len(output'), NEW c \in RangeCols, HasDatum(output'[i][c]),
               i > Len(output)
        PROVE  LET s == i - Len(output) - 1
               IN  /\ s \in Slots /\ s < size /\ HasDatum(chunk[s][c]) /\ output'[i][c] = chunk[s][c]
                   /\ chunk[s][c].row = sheet_row_number[s] /\ Finished(sheet_row_number[s])
    <3> DEFINE s == i - Len(output) - 1
    <3>1. s \in Slots /\ s < size /\ output'[i][c] = CastValue(chunk[s][c], c)
      BY <2>2, <2>6
    <3>2. output'[i][c] = chunk[s][c] /\ HasDatum(chunk[s][c])
      BY <2>6, <3>1 DEF CastValue, HasDatum, Null
    <3>3. HoldsRow(s, sheet_row_number[s])
      BY <1>1, <2>1, <3>1, <3>2 DEF SlotsHoldRows, HasDatum, Null
    <3>4. chunk[s][c].row = sheet_row_number[s] /\ Finished(sheet_row_number[s])
      BY <1>1, <3>2, <3>3, RawFacts DEF HoldsRow, Datum
    <3> QED
      BY <3>1, <3>2, <3>4
  <2>7. \A i \in 1 .. Len(output') : i \in 1 .. Len(output) \/ i > Len(output)
    BY <2>2
  <2>8. DeliveredFinished'
    <3>1. ASSUME NEW i \in 1 .. Len(output'), NEW c \in RangeCols, HasDatum(output'[i][c])
          PROVE  Finished(output'[i][c].row)
      <4>1. CASE i \in 1 .. Len(output)
        BY <1>1, <2>2, <3>1, <4>1 DEF DataInOrder, DeliveredFinished
      <4>2. CASE i > Len(output)
        BY <2>6, <3>1, <4>2
      <4> QED
        BY <2>7, <4>1, <4>2
    <3>2. \A i \in 1 .. Len(output'), c \in RangeCols :
            Finished(output'[i][c].row) => Finished(output[i][c].row)'
      BY <2>1 DEF Finished, parserVars
    <3> QED
      BY <1>11, <3>1, <3>2 DEF DeliveredFinished, HasDatum
  <2>9. DeliveredInOrder'
    <3> SUFFICES ASSUME NEW i \in 1 .. Len(output'), NEW j \in 1 .. Len(output'),
                        NEW c \in RangeCols, NEW d \in RangeCols,
                        HasDatum(output'[i][c]), HasDatum(output'[j][d])
                 PROVE  /\ i < j => output'[i][c].row < output'[j][d].row
                        /\ i = j => output'[i][c].row = output'[j][d].row
      BY <1>11 DEF DeliveredInOrder, HasDatum
    <3>1. CASE i \in 1 .. Len(output) /\ j \in 1 .. Len(output)
      BY <1>1, <2>2, <3>1 DEF DataInOrder, DeliveredInOrder
    <3>2. CASE i \in 1 .. Len(output) /\ j > Len(output)
      <4> DEFINE t == j - Len(output) - 1
      <4>1. t \in Slots /\ t < size /\ HasDatum(chunk[t][d]) /\ output'[j][d] = chunk[t][d]
        BY <2>6, <3>2
      <4>2. output'[i] = output[i] /\ i < j /\ i # j
        BY <2>2, <3>2
      <4> HIDE DEF t
      <4> QED
        BY <1>1, <2>1, <3>2, <4>1, <4>2 DEF DataInOrder, SlotsInOrder
    <3>3. CASE i > Len(output) /\ j \in 1 .. Len(output)
      BY <2>2, <3>3
    <3>4. CASE i > Len(output) /\ j > Len(output)
      <4> DEFINE s == i - Len(output) - 1
                 t == j - Len(output) - 1
      <4>1. /\ s \in Slots /\ s < size /\ HasDatum(chunk[s][c]) /\ output'[i][c] = chunk[s][c]
            /\ chunk[s][c].row = sheet_row_number[s]
        BY <2>6, <3>4
      <4>2. /\ t \in Slots /\ t < size /\ HasDatum(chunk[t][d]) /\ output'[j][d] = chunk[t][d]
            /\ chunk[t][d].row = sheet_row_number[t]
        BY <2>6, <3>4
      <4>3. (i < j => s < t) /\ (i = j => s = t)
        BY <2>2
      <4> HIDE DEF s, t
      <4> QED
        BY <1>1, <2>1, <4>1, <4>2, <4>3 DEF DataInOrder, SlotsInOrder
    <3> QED
      BY <2>7, <3>1, <3>2, <3>3, <3>4
  <2>10. DataComplete'
    <3>1. pc' = "done" => ~Live'
      BY <1>1, <1>2, <2>1, <2>3 DEF LoopStatus
    <3>2. ASSUME NEW r \in Rows, NEW c \in RangeCols, Kept(r, c)
          PROVE  \E i \in 1 .. Len(output') : output'[i][c] = Datum("good", r, c)
      <4>1. CASE \E i \in 1 .. Len(output) : output[i][c] = Datum("good", r, c)
        BY <2>2, <4>1
      <4>2. CASE \E s \in Slots : s < size /\ chunk[s][c] = Datum("good", r, c)
        <5>1. PICK s \in Slots : s < size /\ chunk[s][c] = Datum("good", r, c)
          BY <4>2
        <5> DEFINE i == Len(output) + s + 1
        <5>2. i \in 1 .. Len(output') /\ i > Len(output) /\ i - Len(output) - 1 = s
          BY <1>4, <2>2, <5>1
        <5>3. output'[i][c] = CastValue(chunk[s][c], c)
          BY <2>2, <5>2
        <5>4. output'[i][c] = Datum("good", r, c)
          BY <5>1, <5>3 DEF CastValue, Datum
        <5> QED
          BY <5>2, <5>4
      <4> QED
        BY <3>2, <4>1, <4>2 DEF Kept
    <3>3. \A r \in Rows, c \in RangeCols : Kept(r, c) => Kept(r, c)'
      BY <3>2 DEF Kept, Datum
    <3> QED
      BY <1>1, <1>11, <2>1, <2>3, <3>1, <3>3 DEF DataComplete
  <2> QED
    BY <1>12, <2>1, <2>4, <2>5, <2>8, <2>9, <2>10 DEF DataInv, DataInOrder
<1>36. CASE UNCHANGED vars
  <2>1. UNCHANGED <<parserVars, status, pc, output, error>>
    BY <1>36 DEF vars
  <2>2. /\ \A r : Finished(r)' <=> Finished(r)
        /\ \A c : Kind(c)' = Kind(c)
        /\ (InRow' <=> InRow) /\ (Live' <=> Live) /\ (InCall' <=> InCall)
    BY <1>11, <2>1 DEF parserVars, Finished, Kind, InRow, Live, InCall
  <2>3. SlotsHoldRows' /\ RowInProgress'
    BY <1>1, <1>11, <2>1, <2>2 DEF parserVars, SlotsHoldRows, HoldsRow, RowInProgress
  <2>4. DataInOrder'
    BY <1>1, <1>11, <2>1, <2>2
    DEF parserVars, DataInOrder, DeliveredFinished, DeliveredInOrder, SlotsInOrder, HasDatum
  <2>5. DataComplete'
    BY <1>1, <1>11, <2>1, <2>2 DEF parserVars, DataComplete, Kept
  <2> QED
    BY <1>12, <2>1, <2>3, <2>4, <2>5 DEF DataInv
<1> QED
  BY <1>21, <1>22, <1>23, <1>24, <1>25, <1>26, <1>27, <1>28, <1>29, <1>30, <1>31, <1>32, <1>33,
     <1>34, <1>35, <1>36 DEF Next, Loop, Callback, Terminated

LEMMA DataInit == Init => DataInv
<1> SUFFICES ASSUME Init PROVE DataInv
  OBVIOUS
<1>1. TypeOK
  BY CoreInit DEF CoreInv
<1>2. \A r \in Rows : r \in 1 .. MaxRow /\ ~Finished(r)
  BY <1>1, SheetFacts DEF Init, Finished
<1>3. pc = "idle" /\ output = << >> /\ Len(output) = 0 /\ error = NoRef /\ xml = "OK"
      /\ status = "OK" /\ state = "SHEETDATA"
  BY DEF Init
<1>4. SlotsHoldRows /\ RowInProgress /\ SlotsInOrder
  BY <1>3 DEF SlotsHoldRows, RowInProgress, SlotsInOrder, InCall, InRow
<1>5. DeliveredFinished /\ DeliveredInOrder
  BY <1>3 DEF DeliveredFinished, DeliveredInOrder
<1>6. DataComplete
  BY <1>2, <1>3 DEF DataComplete, Live
<1>7. ErrorNamesCell
  BY <1>3 DEF ErrorNamesCell
<1> QED
  BY <1>4, <1>5, <1>6, <1>7 DEF DataInv, DataInOrder

(* For every worksheet, empty-element rows included: a finished slot is a    *)
(* padded row or a whole row of the worksheet, sheet_row_number names it,    *)
(* data are delivered in the order of their rows and none is dropped.        *)
THEOREM DataCorrect == Spec => []DataInv
<1>1. Init => CoreInv /\ DataInv
  BY CoreInit, DataInit
<1>2. (CoreInv /\ DataInv) /\ [Next]_vars => (CoreInv /\ DataInv)'
  BY CoreStep, DataStep
<1>3. CoreInv /\ DataInv => DataInv
  OBVIOUS
<1> QED
  BY <1>1, <1>2, <1>3, PTL DEF Spec

(* The message of a failed cast names a cell of the range that holds a datum *)
(* the cast rejects, however many rows were padded, skipped or delivered     *)
(* between reading the cell and casting it.                                  *)
THEOREM ErrorsNameTheirCell == Spec => []ErrorNamesCell
<1>1. DataInv => ErrorNamesCell
  BY DEF DataInv
<1> QED
  BY <1>1, DataCorrect, PTL

(* A scan that is done has delivered every good datum of the range in one    *)
(* row and no other, and data of later rows in later rows.                   *)
THEOREM EveryDatumOnce == Spec => []DataOnceInOrder
<1>1. TypeOK /\ DataInv => DataOnceInOrder
  <2> SUFFICES ASSUME TypeOK, DataInv, pc = "done", ~opts.stop_at_empty,
                      NEW r \in Rows, NEW c \in RangeCols,
                      ContainsRow(r), sheet[r].cells[c] = "good"
               PROVE  \E i \in 1 .. Len(output) :
                        /\ Places(r, c) = {i}
                        /\ \A q \in Rows, d \in RangeCols :
                             q > r => \A j \in Places(q, d) : i < j
    BY DEF DataOnceInOrder
  <2>1. Kept(r, c)
    <3>1. Finished(r)
      BY DEF DataInv, DataComplete
    <3> QED
      BY <3>1 DEF DataInv, DataComplete
  <2>2. PICK i \in 1 .. Len(output) : output[i][c] = Datum("good", r, c)
    BY <2>1 DEF Kept, InCall
  <2>3. \A j \in 1 .. Len(output) : j \in Int /\ i \in Int
    OBVIOUS
  <2>4. \A q : HasDatum(Datum("good", q, c)) /\ Datum("good", q, c).row = q
    BY DEF HasDatum, Datum
  <2>5. ASSUME NEW q \in Rows, NEW d \in RangeCols, NEW j \in Places(q, d)
        PROVE  (q > r => i < j) /\ (q = r => j = i)
    <3>1. j \in 1 .. Len(output) /\ output[j][d] = Datum("good", q, d)
      BY DEF Places
    <3>2. q \in Int /\ r \in Int
      BY SheetFacts
    <3>3. /\ HasDatum(output[i][c]) /\ output[i][c].row = r
          /\ HasDatum(output[j][d]) /\ output[j][d].row = q
      BY <2>2, <3>1 DEF HasDatum, Datum
    <3>4. (i < j => r < q) /\ (i = j => r = q) /\ (j < i => q < r)
      BY <3>1, <3>3 DEF DataInv, DataInOrder, DeliveredInOrder
    <3> QED
      BY <2>3, <3>1, <3>2, <3>4
  <2>6. Places(r, c) = {i}
    BY <2>2, <2>5 DEF Places
  <2> QED
    BY <2>5, <2>6
<1> QED
  BY <1>1, DataCorrect, TypeCorrect, PTL

-----------------------------------------------------------------------------
(***************************************************************************)
(* The streaming scan implements TableScan: for every worksheet without    *)
(* <row r="5"/> elements, range, option, vector size and way the entry is  *)
(* cut into blocks, read_xlsx delivers the promised rows.  The argument:   *)
(* PromiseInv says that what has been written is a prefix of the table and *)
(* that an aborted scan has written all of it; a step that returns a chunk *)
(* is then a Deliver or the Complete of TableScan.                         *)
(***************************************************************************)

(* What the promise depends on does not change.                              *)
LEMMA FixedPromise ==
    ASSUME UNCHANGED fixedVars
    PROVE  /\ \A r : TableEndsAt(r)' <=> TableEndsAt(r)
           /\ \A r, c : PromisedValue(r, c)' = PromisedValue(r, c)
           /\ MayFail' <=> MayFail
           /\ Filling' <=> Filling
<1>1. /\ Rows' = Rows /\ RangeCols' = RangeCols /\ opts' = opts /\ range' = range
      /\ sheet' = sheet /\ \A r : ContainsRow(r)' <=> ContainsRow(r)
  BY FixedFacts
<1>2. \A r : RowIsEmpty(r)' <=> RowIsEmpty(r)
  BY <1>1 DEF RowIsEmpty
<1>3. \A r : TableEndsAt(r)' <=> TableEndsAt(r)
  BY <1>1, <1>2 DEF TableEndsAt
<1>4. \A r, c : PromisedValue(r, c)' = PromisedValue(r, c)
  BY <1>1 DEF PromisedValue
<1>5. (MayFail' <=> MayFail) /\ (Filling' <=> Filling)
  BY <1>1 DEF MayFail, Filling
<1> QED
  BY <1>3, <1>4, <1>5

(* The table ends somewhere: PromisedRows is the number of rows before the   *)
(* first place where it does.                                                *)
LEMMA PromisedFacts ==
    ASSUME TypeOK
    PROVE  /\ PromisedRows \in Nat
           /\ TableEndsAt(range.beg.row + PromisedRows)
           /\ \A m \in 0 .. PromisedRows - 1 : ~TableEndsAt(range.beg.row + m)
<1>1. /\ range.beg.row \in 1 .. MaxRow + 1 /\ range.end.row \in 1 .. MaxRow + 1
      /\ range.beg.row <= range.end.row /\ MaxRow \in Nat \ {0}
  BY SheetFacts
<1> DEFINE Ends == {n \in 0 .. MaxRow : TableEndsAt(range.beg.row + n)}
<1>2. range.end.row - range.beg.row \in Ends
  <2>1. range.beg.row + (range.end.row - range.beg.row) = range.end.row
    BY <1>1
  <2> QED
    BY <1>1, <2>1 DEF TableEndsAt
<1>3. Ends \in SUBSET Nat
  BY <1>1
<1>4. PICK n \in Ends : \A m \in Ends : n <= m
  <2> HIDE DEF Ends
  <2> QED
    BY <1>2, <1>3, LeastExists
<1>5. /\ n \in 0 .. MaxRow /\ TableEndsAt(range.beg.row + n)
      /\ \A m \in 0 .. n - 1 : ~TableEndsAt(range.beg.row + m)
  BY <1>1, <1>4
<1> HIDE DEF Ends
<1>6. /\ PromisedRows \in 0 .. MaxRow
      /\ TableEndsAt(range.beg.row + PromisedRows)
      /\ \A m \in 0 .. PromisedRows - 1 : ~TableEndsAt(range.beg.row + m)
  BY <1>5 DEF PromisedRows
<1> QED
  BY <1>6

(* A step that writes no row keeps PromiseInv, unless it aborts the scan     *)
(* before the table is over.                                                 *)
LEMMA PromiseFrame ==
    ASSUME PromiseInv, TypeOK,
           UNCHANGED <<fixedVars, output, last_row>>,
           pc' = "failed" \/ (Written' = Written /\ pc # "failed"),
           InCall' => size' \in Nat /\ (size' = 0 \/ (InCall /\ size' = size)),
           \A s \in Slots, c \in RangeCols : s < size' => chunk'[s][c] = chunk[s][c],
           \A r \in Rows : (ContainsRow(r) /\ Finished(r)') => Finished(r) \/ r <= last_row,
           Live' => Live,
           (~Live' /\ ~Filling /\ pc' # "failed") => TableEndsAt(range.beg.row + Written)
    PROVE  PromiseInv'
<1>1. /\ Rows' = Rows /\ RangeCols' = RangeCols /\ opts' = opts /\ range' = range
      /\ sheet' = sheet /\ Slots' = Slots
      /\ \A r, c : RawValue(r, c)' = RawValue(r, c)
      /\ \A r : ContainsRow(r)' <=> ContainsRow(r)
  BY FixedData
<1>2. /\ \A r : TableEndsAt(r)' <=> TableEndsAt(r)
      /\ \A r, c : PromisedValue(r, c)' = PromisedValue(r, c)
      /\ Filling' <=> Filling
  BY FixedPromise
<1>3. SlotsHoldTable /\ OutputIsTable /\ RowsAccounted /\ TableGoesOn /\ TableIsOver
  BY DEF PromiseInv
<1>4. \A s \in Slots : s \in Nat
  BY ScanAssumption DEF Slots
<1>5. SlotsHoldTable'
  BY <1>1, <1>3, <1>4 DEF SlotsHoldTable
<1>6. OutputIsTable'
  BY <1>1, <1>2, <1>3 DEF OutputIsTable
<1>7. RowsAccounted'
  BY <1>1, <1>3 DEF RowsAccounted
<1>8. TableGoesOn'
  <2>1. CASE Written' = Written
    BY <1>1, <1>2, <1>3, <2>1 DEF TableGoesOn
  <2>2. CASE pc' = "failed"
    <3>1. Len(output) \in Nat /\ size \in Nat
      BY ScanAssumption DEF TypeOK
    <3>2. Written' = Len(output) /\ Written \in Nat /\ Len(output) <= Written
      BY <2>2, <3>1 DEF Written, InCall
    <3>3. \A m \in 0 .. Written' - 1 : m \in 0 .. Written - 1
      BY <3>1, <3>2
    <3> QED
      BY <1>1, <1>2, <1>3, <3>3 DEF TableGoesOn
  <2> QED
    BY <2>1, <2>2
<1>9. TableIsOver'
  BY <1>1, <1>2, <1>3 DEF TableIsOver
<1> QED
  BY <1>5, <1>6, <1>7, <1>8, <1>9 DEF PromiseInv

(* The rows up to the last one that is known not to be in the worksheet are  *)
(* padded, those that are have been read: last_row never runs past a row.    *)
LEMMA PromiseStep ==
    ASSUME NoSelfClosing, ScanInv, DataInv, PromiseInv, [Next]_vars
    PROVE  PromiseInv'
<1>1. /\ CoreInv /\ TypeOK /\ SlotsCounted /\ RowBounds /\ LoopStatus
      /\ RowsCounted /\ ParserPosition
      /\ RowInProgress /\ DataComplete
      /\ SlotsHoldTable /\ OutputIsTable /\ RowsAccounted /\ TableGoesOn /\ TableIsOver
  BY DEF ScanInv, CoreInv, DataInv, PromiseInv
<1>2. /\ size \in 0 .. VectorSize /\ out_index \in 0 .. VectorSize - 1 /\ VectorSize \in Nat \ {0}
      /\ last_row \in 0 .. MaxRow /\ curr_row \in 1 .. MaxRow + 1 /\ last_col \in 0 .. MaxCol
      /\ cell_pos.row \in 0 .. MaxRow /\ cell_pos.col \in 0 .. MaxCol
      /\ MaxRow \in Nat \ {0} /\ MaxCol \in Nat \ {0}
      /\ Len(output) \in Nat
      /\ state \in {"SHEETDATA", "ROW"}
  BY <1>1, ScanAssumption DEF TypeOK, Slots
<1>3. /\ range.beg.row \in 1 .. MaxRow + 1 /\ range.end.row \in 1 .. MaxRow + 1
      /\ range.beg.row - 1 <= last_row /\ last_row < range.end.row
      /\ range.beg.col \in 1 .. MaxCol /\ range.end.col \in 2 .. MaxCol + 1
      /\ RangeCols = range.beg.col .. range.end.col - 1
      /\ Rows \subseteq 1 .. MaxRow
  BY <1>1, SheetFacts DEF Cols, RowBounds
<1>4. \A s \in Slots : s \in Nat
  BY <1>2 DEF Slots
<1>5. MayCallBack => xml = "OK" /\ ~InsideToken
  <2>1. ~InsideToken
    <3> SUFFICES ASSUME state = "ROW" PROVE ~sheet[cell_pos.row].selfclosing
      BY DEF InsideToken
    <3>1. PICK rows \in SUBSET (1 .. MaxRow) : sheet \in [rows -> RowShapes]
      BY <1>1 DEF TypeOK, Worksheets
    <3> QED
      BY <1>1, <3>1 DEF Rows, NoSelfClosing, RowBounds
  <2> QED
    BY <2>1 DEF MayCallBack
<1>6. /\ last_row \in Int /\ size \in Int /\ Len(output) \in Int /\ cell_pos.row \in Int
      /\ range.beg.row \in Int /\ range.end.row \in Int /\ VectorSize \in Int
  BY <1>2, <1>3
<1>10. UNCHANGED fixedVars
  BY DEF Next, Loop, Callback, vars, Call, SkipRows, StopAtSkippedRow, Resume, ReadBlock, LeaveLoop,
         BeginRow, Cell, CellThrows, EndRow, EndSheetData, ParserReturns, FillRows, CastThrows,
         ReturnChunk, Terminated
<1>11. /\ Rows' = Rows /\ RangeCols' = RangeCols /\ opts' = opts /\ range' = range
       /\ sheet' = sheet /\ Slots' = Slots
       /\ \A r, c : RawValue(r, c)' = RawValue(r, c)
       /\ \A r : ContainsRow(r)' <=> ContainsRow(r)
  BY <1>10, FixedData
<1>12. /\ \A r : TableEndsAt(r)' <=> TableEndsAt(r)
       /\ \A r, c : PromisedValue(r, c)' = PromisedValue(r, c)
       /\ Filling' <=> Filling
  BY <1>10, FixedPromise
<1>13. (InCall /\ (Filling \/ Live)) =>
          /\ Written = Len(output) + size
          /\ range.beg.row + Written = last_row + 1
  <2> SUFFICES ASSUME InCall, Filling \/ Live
               PROVE  /\ Written = Len(output) + size
                      /\ range.beg.row + Written = last_row + 1
    OBVIOUS
  <2>1. Written = Len(output) + size /\ last_row = range.beg.row - 1 + Len(output) + size
    BY <1>1 DEF RowsCounted, Written
  <2> QED
    BY <1>6, <2>1
<1>14. (InRow /\ Live) => \A q \in Rows : (range.beg.row <= q /\ last_row < q) => cell_pos.row <= q
  <2> SUFFICES ASSUME InRow, Live, NEW q \in Rows, range.beg.row <= q, last_row < q,
                      q < cell_pos.row
               PROVE  FALSE
    BY <1>2, <1>3
  <2>1. ContainsRow(q)
    BY <1>2, <1>3 DEF InRow, ContainsRow
  <2>2. q <= last_row
    BY <1>1, <2>1 DEF RowsAccounted, Finished
  <2> QED
    BY <1>2, <1>3, <2>2
<1>21. CASE Call
  <2>1. /\ pc = "idle" /\ pc' = "loop" /\ size' = 0 /\ ~InCall /\ InCall'
        /\ UNCHANGED <<status, xml, state, cell_pos, last_row, output>>
    BY <1>21 DEF Call, InCall
  <2>2. Written' = Written /\ (Live' <=> Live)
    BY <1>2, <2>1 DEF Written, Live
  <2>3. /\ \A s \in Slots : ~(s < size')
        /\ \A r : Finished(r)' <=> Finished(r)
    BY <1>4, <2>1 DEF Finished
  <2>4. (~Live' /\ ~Filling /\ pc' # "failed") => TableEndsAt(range.beg.row + Written)
    BY <1>1, <2>1, <2>2 DEF TableIsOver
  <2>5. InCall' => size' \in Nat /\ (size' = 0 \/ (InCall /\ size' = size))
    BY <2>1
  <2>6. PromiseInv /\ TypeOK /\ UNCHANGED <<fixedVars, output, last_row>> /\ pc # "failed"
    BY <1>1, <1>10, <2>1 DEF PromiseInv
  <2> QED
    BY <2>2, <2>3, <2>4, <2>5, <2>6, PromiseFrame
<1>22. CASE SkipRows
  <2>1. /\ pc = "loop" /\ pc' = pc /\ InCall /\ InCall' /\ size # VectorSize /\ status = "SUSPENDED"
        /\ FoundSkippedRow /\ ~opts.stop_at_empty
        /\ UNCHANGED <<status, xml, cell_pos, state, output>>
    BY <1>22 DEF SkipRows, InCall
  <2>2. xml = "SUSPENDED" /\ Live /\ Live' /\ out_index = size
    BY <1>1, <1>2, <2>1 DEF LoopStatus, SlotsCounted, Live
  <2>3. InRow /\ curr_row = cell_pos.row /\ last_row + 1 < cell_pos.row
    BY <1>1, <1>2, <2>1, <2>2 DEF ParserPosition, FoundSkippedRow
  <2>4. PICK k \in Nat : /\ k = SkippedRows /\ k <= cell_pos.row - 1 - last_row
                         /\ size' = size + k /\ last_row' = last_row + k
    <3>1. cell_pos.row - 1 - last_row \in Nat /\ VectorSize - out_index \in Nat
      BY <1>2, <2>3
    <3>2. SkippedRows \in Nat /\ SkippedRows <= cell_pos.row - 1 - last_row
      BY <2>3, <3>1 DEF SkippedRows, Lesser
    <3> QED
      BY <1>22, <2>2, <3>2 DEF SkipRows
  <2>5. \A s \in Slots : s < size' => chunk'[s] = IF s < size THEN chunk[s] ELSE NullRow
    BY <1>2, <1>4, <1>22, <2>2, <2>4 DEF SkipRows, PutNullRows
  <2>6. \A q \in Int : (last_row < q /\ q <= last_row + k) =>
           /\ q \notin Rows /\ ~TableEndsAt(q)
    <3> SUFFICES ASSUME NEW q \in Int, last_row < q, q <= last_row + k
                 PROVE  q \notin Rows /\ ~TableEndsAt(q)
      OBVIOUS
    <3>1. q < cell_pos.row
      BY <1>2, <2>4
    <3>2. q \notin Rows
      <4>1. range.beg.row <= q /\ ~(cell_pos.row <= q)
        BY <1>3, <1>6, <3>1
      <4> QED
        BY <1>14, <2>2, <2>3, <4>1
    <3>3. cell_pos.row \in Rows /\ ContainsRow(cell_pos.row)
      BY <1>1, <2>3 DEF InRow, RowBounds
    <3>4. q # range.end.row
      BY <1>2, <1>3, <3>1, <3>3 DEF ContainsRow
    <3>5. ~(cell_pos.row < q)
      BY <1>2, <3>1
    <3> QED
      BY <2>1, <3>2, <3>3, <3>4, <3>5 DEF TableEndsAt
  <2>7. SlotsHoldTable'
    <3> SUFFICES ASSUME NEW s \in Slots, NEW c \in RangeCols, s < size'
                 PROVE  chunk'[s][c] = RawValue(range.beg.row + Len(output) + s, c)
      BY <1>11, <2>1 DEF SlotsHoldTable
    <3>1. CASE s < size
      BY <1>1, <2>1, <2>5, <3>1 DEF SlotsHoldTable
    <3>2. CASE ~(s < size)
      <4> DEFINE q == range.beg.row + Len(output) + s
      <4>1. q \in Int /\ last_row < q /\ q <= last_row + k
        <5>1. s \in Int /\ range.beg.row + (Len(output) + size) = last_row + 1 /\ s < size + k
          BY <1>4, <1>13, <2>1, <2>2, <2>4
        <5>2. PICK first, done, n, last \in Int : /\ first = range.beg.row /\ done = Len(output)
                                                  /\ n = size /\ last = last_row
          BY <1>6
        <5>3. first + (done + n) = last + 1 /\ s < n + k /\ ~(s < n) /\ s \in Int
          BY <3>2, <5>1, <5>2
        <5>4. first + done + s \in Int /\ last < first + done + s /\ first + done + s <= last + k
          BY <5>3
        <5> QED
          BY <5>2, <5>4
      <4>2. q \notin Rows
        BY <2>6, <4>1
      <4>3. chunk'[s][c] = Null
        BY <2>5, <3>2 DEF NullRow
      <4> HIDE DEF q
      <4> QED
        BY <4>2, <4>3 DEF RawValue, q
    <3> QED
      BY <3>1, <3>2
  <2>8. TableGoesOn'
    <3>1. Written' = Len(output) + size + k /\ Written = Len(output) + size
      BY <1>2, <2>1, <2>4 DEF Written
    <3>2. ASSUME NEW m \in 0 .. Written' - 1 PROVE ~TableEndsAt(range.beg.row + m)
      <4>1. CASE m < Written
        BY <1>1, <1>2, <3>1, <4>1 DEF TableGoesOn
      <4>2. CASE ~(m < Written)
        <5>1. /\ range.beg.row + m \in Int /\ last_row < range.beg.row + m
              /\ range.beg.row + m <= last_row + k
          <6>1. range.beg.row + (Len(output) + size) = last_row + 1
            BY <1>13, <2>1, <2>2
          <6>2. m \in Int /\ m < Len(output) + size + k /\ ~(m < Len(output) + size)
            BY <1>6, <2>4, <3>1, <4>2
          <6> QED
            BY <1>6, <2>4, <6>1, <6>2
        <5> QED
          BY <2>6, <5>1
      <4> QED
        BY <4>1, <4>2
    <3> QED
      BY <1>11, <1>12, <3>2 DEF TableGoesOn
  <2>9. RowsAccounted'
    <3>1. \A q \in Rows : Finished(q)' <=> Finished(q)
      BY <2>1 DEF Finished
    <3>2. \A q \in Rows : q <= last_row => q <= last_row'
      BY <1>2, <1>3, <2>4
    <3> QED
      BY <1>1, <1>11, <2>1, <2>2, <3>1, <3>2 DEF RowsAccounted
  <2>10. OutputIsTable' /\ TableIsOver'
    BY <1>1, <1>11, <1>12, <2>1, <2>2 DEF OutputIsTable, TableIsOver
  <2> QED
    BY <2>7, <2>8, <2>9, <2>10 DEF PromiseInv
<1>23. CASE StopAtSkippedRow
  <2>1. /\ UNCHANGED <<parserVars, output>> /\ opts.stop_at_empty /\ FoundSkippedRow
        /\ pc' = "fill" /\ pc = "loop" /\ status' = "ABORTED" /\ status = "SUSPENDED"
    BY <1>23 DEF StopAtSkippedRow
  <2>2. Live /\ ~Live' /\ InCall /\ InCall' /\ Written' = Written
    BY <1>1, <2>1 DEF LoopStatus, Live, InCall, Written, parserVars
  <2>3. InRow /\ curr_row = cell_pos.row /\ last_row + 1 < cell_pos.row
    BY <1>1, <1>2, <2>1, <2>2 DEF ParserPosition, FoundSkippedRow
  <2>4. last_row + 1 \notin Rows
    BY SMTT(30), <1>2, <1>3, <1>14, <2>2, <2>3
  <2>5. TableEndsAt(range.beg.row + Written)
    BY <1>13, <2>1, <2>2, <2>4 DEF TableEndsAt, RowIsEmpty
  <2> QED
    BY <1>1, <1>2, <1>10, <2>1, <2>2, <2>5, PromiseFrame DEF PromiseInv, parserVars, Finished
<1>24. CASE Resume
  <2>1. /\ UNCHANGED <<status, chunk, size, last_row, cell_pos, state, output>>
        /\ pc' = "parse" /\ pc = "loop" /\ status = "SUSPENDED" /\ xml' = "OK"
    BY <1>24 DEF Resume
  <2>2. Live /\ Live' /\ InCall /\ InCall' /\ Written' = Written
    BY <1>1, <2>1 DEF Live, LoopStatus, InCall, Written
  <2> QED
    BY <1>1, <1>2, <1>10, <2>1, <2>2, PromiseFrame DEF PromiseInv, Finished
<1>25. CASE ReadBlock
  <2>1. UNCHANGED <<parserVars, status, output>> /\ pc' = "parse" /\ pc = "loop"
    BY <1>25 DEF ReadBlock
  <2>2. (Live' <=> Live) /\ InCall /\ InCall' /\ Written' = Written
    BY <2>1 DEF Live, InCall, Written, parserVars
  <2> QED
    BY <1>1, <1>2, <1>10, <2>1, <2>2, PromiseFrame DEF PromiseInv, parserVars, Finished, TableIsOver
<1>26. CASE LeaveLoop
  <2>1. UNCHANGED <<parserVars, status, output>> /\ pc' = "fill" /\ pc = "loop"
    BY <1>26 DEF LeaveLoop
  <2>2. (Live' <=> Live) /\ InCall /\ InCall' /\ Written' = Written
    BY <2>1 DEF Live, InCall, Written, parserVars
  <2> QED
    BY <1>1, <1>2, <1>10, <2>1, <2>2, PromiseFrame DEF PromiseInv, parserVars, Finished, TableIsOver
<1>27. CASE BeginRow
  <2>1. PICK r \in Rows : IsNextRow(r) /\ cell_pos' = [row |-> r, col |-> 0] /\ OnBeginRow(r)
    BY <1>27 DEF BeginRow
  <2>2. /\ pc = "parse" /\ pc' = "parse" /\ state = "SHEETDATA" /\ state' = "ROW" /\ xml = "OK"
        /\ UNCHANGED <<status, chunk, size, last_row, output>>
    BY <1>5, <1>27 DEF BeginRow, MayCallBack
  <2>3. \A q \in Rows : Finished(q)' => Finished(q)
    BY <1>2, <1>3, <2>1, <2>2 DEF Finished, IsNextRow
  <2>4. Live /\ Live' /\ InCall /\ InCall' /\ Written' = Written
    BY <1>1, <2>1, <2>2 DEF LoopStatus, Live, OnBeginRow, InCall, Written
  <2> QED
    BY <1>1, <1>2, <1>10, <2>2, <2>3, <2>4, PromiseFrame DEF PromiseInv
<1>28. CASE Cell
  <2>1. PICK c \in Cols : cell_pos' = [row |-> cell_pos.row, col |-> c] /\ OnCell(c)
    BY <1>28 DEF Cell
  <2>2. /\ pc = "parse" /\ pc' = "parse" /\ state = "ROW" /\ state' = "ROW" /\ InCall /\ InCall'
        /\ UNCHANGED <<status, xml, size, last_row, output>>
    BY <1>28 DEF Cell, MayCallBack, InCall
  <2>3. Live /\ Live' /\ size # VectorSize /\ out_index = size
    BY <1>1, <2>2 DEF RowInProgress, LoopStatus, SlotsCounted, Live
  <2>4. \A s \in Slots : s < size => chunk'[s] = chunk[s]
    BY <1>1, <1>2, <1>4, <2>1, <2>3 DEF OnCell, TypeOK
  <2>5. /\ \A q : Finished(q)' => Finished(q)
        /\ Written' = Written
    BY <2>1, <2>2 DEF Finished, Written
  <2> QED
    BY <1>1, <1>2, <1>10, <2>2, <2>3, <2>4, <2>5, PromiseFrame DEF PromiseInv
<1>29. CASE CellThrows
  <2>1. UNCHANGED <<parserVars, status, output>> /\ pc' = "failed" /\ pc = "parse" /\ InCall
    BY <1>29 DEF CellThrows, MayCallBack, InCall
  <2> QED
    BY <1>1, <1>2, <1>10, <2>1, PromiseFrame DEF PromiseInv, parserVars, Finished, InCall, Live
<1>32. CASE ParserReturns
  <2>1. UNCHANGED <<parserVars, output>> /\ pc' = "loop" /\ pc = "parse" /\ status' = xml
    BY <1>32 DEF ParserReturns
  <2>2. (Live' <=> Live) /\ InCall /\ InCall' /\ Written' = Written
    BY <1>1, <2>1 DEF parserVars, LoopStatus, Live, InCall, Written
  <2> QED
    BY <1>1, <1>2, <1>10, <2>1, <2>2, PromiseFrame DEF PromiseInv, parserVars, Finished, TableIsOver
<1>34. CASE CastThrows
  <2>1. UNCHANGED <<parserVars, status, output>> /\ pc' = "failed" /\ pc = "cast" /\ InCall
    BY <1>34 DEF CastThrows, InCall
  <2> QED
    BY <1>1, <1>2, <1>10, <2>1, PromiseFrame DEF PromiseInv, parserVars, Finished, InCall, Live
<1>36. CASE UNCHANGED vars
  <2>1. UNCHANGED <<parserVars, status, pc, output>>
    BY <1>36 DEF vars
  <2>2. (Live' <=> Live) /\ (InCall' <=> InCall) /\ Written' = Written
    BY <2>1 DEF parserVars, Live, InCall, Written
  <2>3. /\ \A r : Finished(r)' <=> Finished(r)
        /\ chunk' = chunk /\ size' = size /\ last_row' = last_row
    BY <2>1 DEF parserVars, Finished
  <2> QED
    BY <1>1, <1>11, <1>12, <2>1, <2>2, <2>3
    DEF PromiseInv, SlotsHoldTable, OutputIsTable, RowsAccounted, TableGoesOn, TableIsOver
<1>30. CASE EndRow
  <2>0. PICK r \in Rows : r = cell_pos.row
    BY <1>1, <1>30 DEF EndRow, RowBounds
  <2>1. /\ pc = "parse" /\ pc' = "parse" /\ state = "ROW" /\ state' = "SHEETDATA"
        /\ InCall /\ InCall' /\ OnEndRow(r) /\ NoMoreCells /\ xml = "OK"
        /\ UNCHANGED <<status, cell_pos, output>>
    BY <1>5, <1>30, <2>0 DEF EndRow, MayCallBack, InCall
  <2>2. Live /\ size # VectorSize /\ out_index = size /\ r \in 1 .. MaxRow
    BY <1>1, <1>3, <2>1 DEF LoopStatus, SlotsCounted, Live
  <2>3. \A q \in Rows : (Finished(q)' <=> q <= r) /\ (Finished(q) <=> q < r)
    <3>1. /\ cell_pos.row = r /\ cell_pos'.row = r /\ state = "ROW" /\ state' = "SHEETDATA"
      BY <2>0, <2>1
    <3>2. \A q \in Rows : (Finished(q)' <=> q < r \/ q = r) /\ (Finished(q) <=> q < r)
      BY <3>1 DEF Finished
    <3>3. r \in Int /\ \A q \in Rows : q \in Int
      BY <1>3, <2>0
    <3>4. \A q \in Int : q < r \/ q = r <=> q <= r
      BY <3>3
    <3> QED
      BY <3>2, <3>3, <3>4
  <2>4. CASE ~ContainsRow(r)
    <3>1. UNCHANGED <<xml, chunk, size, last_row>>
      BY <2>1, <2>4 DEF OnEndRow
    <3>2. Live' /\ Written' = Written
      BY <2>1, <2>2, <3>1 DEF Live, Written
    <3>3. ASSUME NEW q \in Rows, ContainsRow(q), Finished(q)' PROVE Finished(q)
      <4>1. q <= r /\ q # r
        BY <2>3, <2>4, <3>3
      <4>2. q \in Int /\ r \in Int
        BY <1>3, <2>0
      <4>3. q < r
        BY <4>1, <4>2
      <4> QED
        BY <2>3, <4>3
    <3>4. /\ PromiseInv /\ TypeOK /\ UNCHANGED <<fixedVars, output, last_row>>
          /\ Written' = Written /\ pc # "failed" /\ Live /\ InCall /\ size' \in Nat /\ size' = size
      BY <1>1, <1>2, <1>10, <2>1, <2>2, <3>1, <3>2
    <3>5. \A s \in Slots, c \in RangeCols : s < size' => chunk'[s][c] = chunk[s][c]
      BY <3>1
    <3>6. /\ pc' = "failed" \/ (Written' = Written /\ pc # "failed")
          /\ InCall' => size' \in Nat /\ (size' = 0 \/ (InCall /\ size' = size))
          /\ Live' => Live
          /\ (~Live' /\ ~Filling /\ pc' # "failed") => TableEndsAt(range.beg.row + Written)
      BY <3>2, <3>4
    <3>7. \A q \in Rows : (ContainsRow(q) /\ Finished(q)') => Finished(q) \/ q <= last_row
      BY <3>3
    <3> QED
      BY <3>4, <3>5, <3>6, <3>7, PromiseFrame, Zenon
  <2>5. ASSUME ContainsRow(r)
        PROVE  /\ InRow /\ last_row + 1 = r /\ last_row' = r
               /\ range.beg.row + Written = r /\ Written = Len(output) + size
               /\ RowIsEmpty(r) <=> is_row_empty
    <3>1. InRow /\ last_row + 1 = r
      BY <1>1, <2>0, <2>1, <2>2, <2>5 DEF InRow, ParserPosition
    <3>2. last_row' = r
      BY <2>1, <2>5 DEF OnEndRow
    <3>3. RowIsEmpty(r) <=> is_row_empty
      <4>1. is_row_empty <=> \A c \in RangeCols : c <= last_col => ~HasData(Kind(c))
        BY <1>1, <3>1 DEF RowInProgress
      <4>2. \A c \in RangeCols : ~(c <= last_col) => ~HasData(Kind(c))
        <5> SUFFICES ASSUME NEW c \in RangeCols, ~(c <= last_col) PROVE Kind(c) = "absent"
          BY DEF HasData
        <5>1. c \in Cols /\ c \in Int /\ last_col < c
          BY <1>2, <1>3 DEF Cols
        <5>2. CASE c <= cell_pos.col
          BY <1>1, <3>1, <5>1, <5>2 DEF RowInProgress
        <5>3. CASE c > cell_pos.col
          BY <2>1, <5>1, <5>3 DEF NoMoreCells
        <5> QED
          BY <1>2, <5>1, <5>2, <5>3
      <4> QED
        BY <2>0, <4>1, <4>2 DEF RowIsEmpty, Kind
    <3> QED
      BY <1>13, <2>1, <2>2, <3>1, <3>2, <3>3
  <2>6. CASE ContainsRow(r) /\ opts.stop_at_empty /\ is_row_empty
    <3>1. UNCHANGED <<chunk, size>> /\ xml' = "ABORTED"
      BY <2>1, <2>6 DEF OnEndRow
    <3>2. ~Live' /\ Written' = Written
      BY <2>1, <3>1 DEF Live, Written
    <3>3. TableEndsAt(range.beg.row + Written)
      BY <2>5, <2>6 DEF TableEndsAt
    <3>4. SlotsHoldTable' /\ OutputIsTable' /\ TableGoesOn'
      BY <1>1, <1>11, <1>12, <2>1, <3>1, <3>2 DEF SlotsHoldTable, OutputIsTable, TableGoesOn
    <3>5. RowsAccounted'
      BY <1>11, <2>6, <3>2 DEF RowsAccounted
    <3>6. TableIsOver'
      BY <1>11, <1>12, <3>2, <3>3 DEF TableIsOver
    <3> QED
      BY <3>4, <3>5, <3>6 DEF PromiseInv
  <2>7. CASE ContainsRow(r) /\ ~(opts.stop_at_empty /\ is_row_empty)
    <3>1. /\ size \in Slots /\ size' = size + 1 /\ xml' # "ABORTED"
          /\ \A s \in Slots : s < size => chunk'[s] = chunk[s]
          /\ \A c \in RangeCols : chunk'[size][c] = RawValue(r, c)
      BY <1>1, <1>30, <2>0, <2>7, EndRowWrites DEF ScanInv
    <3>2. \A s \in Slots : s < size' <=> (s < size \/ s = size)
      BY <1>2, <1>4, <3>1
    <3>3. SlotsHoldTable'
      <4>1. range.beg.row + Len(output) + size = r
        BY <1>2, <1>3, <2>5, <2>7
      <4>2. \A s \in Slots, c \in RangeCols :
              s < size' => chunk'[s][c] = RawValue(range.beg.row + Len(output) + s, c)
        BY <1>1, <2>1, <3>1, <3>2, <4>1 DEF SlotsHoldTable
      <4> QED
        BY <1>11, <2>1, <4>2 DEF SlotsHoldTable
    <3>4. TableGoesOn'
      <4>1. ~TableEndsAt(r)
        <5>1. r # range.end.row /\ ~(r < r)
          BY <1>3, <2>2, <2>7 DEF ContainsRow
        <5> QED
          BY <2>5, <2>7, <5>1 DEF TableEndsAt
      <4>2. Written' = Written + 1 /\ Written \in Nat
        BY <1>2, <2>1, <2>5, <2>7, <3>1 DEF Written
      <4>3. \A m \in 0 .. Written' - 1 : m \in 0 .. Written - 1 \/ m = Written
        BY <4>2
      <4> QED
        BY <1>1, <1>11, <1>12, <2>5, <2>7, <4>1, <4>3 DEF TableGoesOn
    <3>5. RowsAccounted'
      BY <1>11, <2>3, <2>5, <2>7 DEF RowsAccounted
    <3>6. OutputIsTable' /\ TableIsOver'
      BY <1>1, <1>11, <1>12, <2>1, <2>2, <3>1 DEF OutputIsTable, TableIsOver, Live
    <3> QED
      BY <3>3, <3>4, <3>5, <3>6 DEF PromiseInv
  <2> QED
    BY <2>4, <2>6, <2>7
<1>31. CASE EndSheetData
  <2>1. /\ UNCHANGED <<status, chunk, size, last_row, cell_pos, state, output>>
        /\ pc' = "parse" /\ pc = "parse" /\ xml = "OK" /\ xml' = "ABORTED" /\ state = "SHEETDATA"
        /\ \A r \in Rows : r <= cell_pos.row
    BY <1>5, <1>31 DEF EndSheetData, MayCallBack
  <2>2. Live /\ ~Live' /\ InCall /\ InCall' /\ Written' = Written
    BY <1>1, <2>1 DEF LoopStatus, Live, InCall, Written
  <2>3. \A r \in Rows : ContainsRow(r) => r <= last_row
    BY <1>1, <1>2, <1>3, <2>1, <2>2 DEF RowsAccounted, Finished
  <2>4. ~Filling => TableEndsAt(last_row + 1)
    <3>1. CASE opts.stop_at_empty
      <4>1. CASE last_row + 1 \in Rows
        <5>1. ~ContainsRow(last_row + 1)
          BY <1>2, <2>3, <4>1
        <5> QED
          BY <1>2, <1>3, <5>1 DEF ContainsRow, TableEndsAt
      <4> QED
        BY <3>1, <4>1 DEF TableEndsAt, RowIsEmpty
    <3>2. CASE ~opts.stop_at_empty
      <4>0. \A r \in Rows : r \in Int
        BY <1>3
      <4>1. \A r \in Rows : ContainsRow(r) => r < last_row + 1
        BY <1>6, <2>3, <4>0
      <4> QED
        BY <3>2, <4>1 DEF TableEndsAt, Filling
    <3> QED
      BY <3>1, <3>2
  <2>5. ~Filling => TableEndsAt(range.beg.row + Written)
    BY <1>13, <2>2, <2>4
  <2> QED
    BY <1>1, <1>2, <1>10, <2>1, <2>2, <2>3, <2>5, PromiseFrame DEF PromiseInv
<1>33. CASE FillRows
  <2>1. /\ pc = "fill" /\ pc' = "cast" /\ InCall /\ InCall'
        /\ UNCHANGED <<status, xml, cell_pos, state, output>>
    BY <1>33 DEF FillRows, InCall
  <2>2. (Live' <=> Live) /\ \A q : Finished(q)' <=> Finished(q)
    BY <2>1 DEF Live, Finished
  <2>3. CASE ~(Filling /\ size # VectorSize)
    <3>1. UNCHANGED <<chunk, last_row, size>> /\ Written' = Written
      BY <1>33, <2>1, <2>3 DEF FillRows, Filling, Written
    <3> QED
      BY <1>1, <1>2, <1>10, <2>1, <2>2, <3>1, PromiseFrame DEF PromiseInv, TableIsOver
  <2>4. CASE Filling /\ size # VectorSize
    <3>1. ~Live /\ out_index = size
      BY <1>1, <2>1, <2>4 DEF LoopStatus, SlotsCounted
    <3>2. PICK k \in Nat : /\ k = RowsToFill /\ k <= range.end.row - 1 - last_row
                           /\ size' = size + k /\ last_row' = last_row + k
      <4>1. range.end.row - 1 - last_row \in Nat /\ VectorSize - out_index \in Nat
        BY <1>2, <1>3
      <4>2. RowsToFill \in Nat /\ RowsToFill <= range.end.row - 1 - last_row
        BY <4>1 DEF RowsToFill, Lesser
      <4> QED
        BY <1>33, <2>4, <4>2 DEF FillRows, Filling
    <3>3. \A s \in Slots : s < size' => chunk'[s] = IF s < size THEN chunk[s] ELSE NullRow
      BY <1>2, <1>4, <1>33, <2>4, <3>1, <3>2 DEF FillRows, Filling, PutNullRows
    <3>4. \A q \in Int : (last_row < q /\ q <= last_row + k) => q \notin Rows /\ ~TableEndsAt(q)
      <4> SUFFICES ASSUME NEW q \in Int, last_row < q, q <= last_row + k
                   PROVE  q \notin Rows /\ ~TableEndsAt(q)
        OBVIOUS
      <4>1. ContainsRow(q) /\ q # range.end.row
        BY <1>3, <1>6, <3>2 DEF ContainsRow
      <4>2. \A r \in Rows : ContainsRow(r) => r <= last_row
        BY <1>1, <2>1, <2>4, <3>1 DEF RowsAccounted, DataComplete, Filling
      <4>3. q \notin Rows
        BY <1>2, <4>1, <4>2
      <4> QED
        BY <2>4, <4>1, <4>3 DEF TableEndsAt, Filling
    <3>5. SlotsHoldTable'
      <4> SUFFICES ASSUME NEW s \in Slots, NEW c \in RangeCols, s < size'
                   PROVE  chunk'[s][c] = RawValue(range.beg.row + Len(output) + s, c)
        BY <1>11, <2>1 DEF SlotsHoldTable
      <4>1. CASE s < size
        BY <1>1, <2>1, <3>3, <4>1 DEF SlotsHoldTable
      <4>2. CASE ~(s < size)
        <5> DEFINE q == range.beg.row + Len(output) + s
        <5>1. q \in Int /\ last_row < q /\ q <= last_row + k
          <6>1. s \in Int /\ range.beg.row + (Len(output) + size) = last_row + 1 /\ s < size + k
            BY <1>4, <1>13, <2>1, <2>4, <3>2
          <6> QED
            BY <1>6, <3>2, <4>2, <6>1
        <5>2. q \notin Rows
          BY <3>4, <5>1
        <5>3. chunk'[s][c] = Null
          BY <3>3, <4>2 DEF NullRow
        <5> HIDE DEF q
        <5> QED
          BY <5>2, <5>3 DEF RawValue, q
      <4> QED
        BY <4>1, <4>2
    <3>6. TableGoesOn'
      <4>1. Written' = Len(output) + size + k /\ Written = Len(output) + size
        BY <1>2, <2>1, <3>2 DEF Written
      <4>2. ASSUME NEW m \in 0 .. Written' - 1 PROVE ~TableEndsAt(range.beg.row + m)
        <5>1. CASE m < Written
          BY <1>1, <1>2, <4>1, <5>1 DEF TableGoesOn
        <5>2. CASE ~(m < Written)
          <6>1. /\ range.beg.row + m \in Int /\ last_row < range.beg.row + m
                /\ range.beg.row + m <= last_row + k
            <7>1. range.beg.row + (Len(output) + size) = last_row + 1
              BY <1>13, <2>1, <2>4
            <7>2. m \in Int /\ m < Len(output) + size + k /\ ~(m < Len(output) + size)
              BY <1>6, <3>2, <4>1, <5>2
            <7> QED
              BY <1>6, <3>2, <7>1, <7>2
          <6> QED
            BY <3>4, <6>1
        <5> QED
          BY <5>1, <5>2
      <4> QED
        BY <1>11, <1>12, <4>2 DEF TableGoesOn
    <3>7. RowsAccounted'
      <4>1. \A q \in Rows : q <= last_row => q <= last_row'
        BY <1>2, <1>3, <3>2
      <4> QED
        BY <1>1, <1>11, <2>2, <4>1 DEF RowsAccounted
    <3>8. OutputIsTable' /\ TableIsOver'
      BY <1>1, <1>11, <1>12, <2>1, <2>4 DEF OutputIsTable, TableIsOver
    <3> QED
      BY <3>5, <3>6, <3>7, <3>8 DEF PromiseInv
  <2> QED
    BY <2>3, <2>4
<1>35. CASE ReturnChunk
  <2>1. /\ pc = "cast" /\ InCall /\ ~InCall' /\ pc' # "failed"
        /\ opts.ignore_errors \/ \A s \in Slots, c \in RangeCols : ~CastFails(s, c)
        /\ UNCHANGED <<parserVars, status>>
    BY <1>35 DEF ReturnChunk, InCall
  <2>2. /\ Len(output) \in Nat /\ size \in Nat /\ Len(output') = Len(output) + size
        /\ \A i \in 1 .. Len(output) : output'[i] = output[i]
        /\ \A i \in 1 .. Len(output') : i > Len(output) =>
             /\ i - Len(output) - 1 \in Slots /\ i - Len(output) - 1 < size
             /\ output'[i] = [c \in RangeCols |-> CastValue(chunk[i - Len(output) - 1][c], c)]
    BY <1>1, <1>35, ReturnedRows
  <2>3. /\ \A r : Finished(r)' <=> Finished(r)
        /\ Live' <=> Live
        /\ Written' = Written
    BY <1>11, <2>1, <2>2 DEF parserVars, Finished, Live, Written
  <2>4. OutputIsTable'
    <3> SUFFICES ASSUME NEW i \in 1 .. Len(output'), NEW c \in RangeCols
                 PROVE  output'[i][c] = PromisedValue(range.beg.row + i - 1, c)
      BY <1>11, <1>12 DEF OutputIsTable
    <3>1. CASE i \in 1 .. Len(output)
      BY <1>1, <2>2, <3>1 DEF OutputIsTable
    <3>2. CASE i > Len(output)
      <4> DEFINE s == i - Len(output) - 1
                 r == range.beg.row + i - 1
      <4>1. s \in Slots /\ s < size /\ output'[i][c] = CastValue(chunk[s][c], c)
        BY <2>2, <3>2
      <4>2. range.beg.row + Len(output) + s = r
        BY <1>2, <1>3
      <4>3. chunk[s][c] = RawValue(r, c)
        BY <1>1, <2>1, <4>1, <4>2 DEF SlotsHoldTable
      <4>4. opts.ignore_errors \/ ~(c \in TypedCols /\ chunk[s][c].kind = "bad")
        BY <2>1, <4>1 DEF CastFails
      <4> HIDE DEF s, r
      <4>5. ASSUME r \notin Rows PROVE output'[i][c] = PromisedValue(r, c)
        <5>1. chunk[s][c] = Null /\ PromisedValue(r, c) = Null
          BY <4>3, <4>5 DEF RawValue, PromisedValue
        <5>2. CastValue(Null, c) = Null
          BY DEF CastValue
        <5> QED
          BY <4>1, <5>1, <5>2
      <4>6. ASSUME r \in Rows PROVE output'[i][c] = PromisedValue(r, c)
        <5> DEFINE v == CellValue(sheet[r].cells[c], r, c)
        <5>1. chunk[s][c] = v
          BY <4>3, <4>6 DEF RawValue
        <5>2. PromisedValue(r, c) = IF v.kind = "bad" /\ ~opts.ignore_errors THEN v
                                    ELSE CastValue(v, c)
          BY <4>6 DEF PromisedValue
        <5> HIDE DEF v
        <5>3. (v.kind = "bad" /\ ~opts.ignore_errors) => CastValue(v, c) = v
          BY <4>4, <5>1 DEF CastValue
        <5> QED
          BY <4>1, <5>1, <5>2, <5>3
      <4> QED
        BY <4>5, <4>6 DEF r
    <3> QED
      BY <2>2, <3>1, <3>2
  <2>5. SlotsHoldTable'
    BY <2>1 DEF SlotsHoldTable
  <2>6. RowsAccounted' /\ TableGoesOn' /\ TableIsOver'
    BY <1>1, <1>11, <1>12, <2>1, <2>3
    DEF parserVars, RowsAccounted, TableGoesOn, TableIsOver, InCall
  <2> QED
    BY <2>4, <2>5, <2>6 DEF PromiseInv
<1> QED
  BY <1>21, <1>22, <1>23, <1>24, <1>25, <1>26, <1>27, <1>28, <1>29, <1>30, <1>31, <1>32, <1>33,
     <1>34, <1>35, <1>36 DEF Next, Loop, Callback, Terminated

LEMMA PromiseInit == Init => PromiseInv
<1> SUFFICES ASSUME Init PROVE PromiseInv
  OBVIOUS
<1>1. TypeOK
  BY CoreInit DEF CoreInv
<1>2. \A r \in Rows : r \in 1 .. MaxRow /\ ~Finished(r)
  BY <1>1, SheetFacts DEF Init, Finished
<1>3. output = << >> /\ Len(output) = 0 /\ ~InCall /\ Live /\ Written = 0
  BY DEF Init, InCall, Live, Written
<1>4. SlotsHoldTable /\ OutputIsTable /\ RowsAccounted
  BY <1>2, <1>3 DEF SlotsHoldTable, OutputIsTable, RowsAccounted
<1>5. TableGoesOn /\ TableIsOver
  BY <1>3 DEF TableGoesOn, TableIsOver
<1> QED
  BY <1>4, <1>5 DEF PromiseInv

(* At every callback and every step of the loop, what has been written is    *)
(* the beginning of the table that was promised, and a scan that has stopped *)
(* reading has written, or goes on to pad, all of it.                        *)
THEOREM TableCorrect ==
    ASSUME NoSelfClosing
    PROVE  Spec => []TableInv
<1>1. Init => TableInv
  BY ScanInit, DataInit, PromiseInit DEF TableInv
<1>2. TableInv /\ [Next]_vars => TableInv'
  <2> SUFFICES ASSUME TableInv, [Next]_vars PROVE TableInv'
    OBVIOUS
  <2>1. CoreInv /\ ScanInv /\ DataInv /\ PromiseInv
    BY DEF TableInv, ScanInv
  <2> QED
    BY <2>1, ScanStep, DataStep, PromiseStep DEF TableInv
<1> QED
  BY <1>1, <1>2, PTL DEF Spec

-----------------------------------------------------------------------------
(* The table a query is entitled to does not depend on how far the scan is.  *)
LEMMA PromisedIsFixed ==
    TypeOK /\ TypeOK' /\ UNCHANGED fixedVars => Promised' = Promised /\ MayFail' = MayFail
<1> DEFINE First(n) == /\ n \in Nat
                       /\ TableEndsAt(range.beg.row + n)
                       /\ \A m \in 0 .. n - 1 : ~TableEndsAt(range.beg.row + m)
<1>1. TypeOK => First(PromisedRows)
  BY PromisedFacts
<1>2. TypeOK' => First(PromisedRows)'
  BY <1>1, PTL
<1> SUFFICES ASSUME TypeOK, TypeOK', UNCHANGED fixedVars
             PROVE  Promised' = Promised /\ MayFail' = MayFail
  OBVIOUS
<1>3. /\ \A r : TableEndsAt(r)' <=> TableEndsAt(r)
      /\ \A r, c : PromisedValue(r, c)' = PromisedValue(r, c)
      /\ MayFail' <=> MayFail
  BY FixedPromise
<1>4. range' = range /\ RangeCols' = RangeCols
  BY FixedFacts
<1>5. PromisedRows' = PromisedRows
  <2>1. /\ PromisedRows \in Nat /\ PromisedRows' \in Nat
        /\ TableEndsAt(range.beg.row + PromisedRows) /\ TableEndsAt(range.beg.row + PromisedRows')
        /\ \A m \in 0 .. PromisedRows - 1 : ~TableEndsAt(range.beg.row + m)
        /\ \A m \in 0 .. PromisedRows' - 1 : ~TableEndsAt(range.beg.row + m)
    BY <1>1, <1>2, <1>3, <1>4
  <2>2. ~(PromisedRows' < PromisedRows) /\ ~(PromisedRows < PromisedRows')
    <3>1. \A m, n \in Nat : m < n => m \in 0 .. n - 1
      OBVIOUS
    <3> QED
      BY <2>1, <3>1, Zenon
  <2> QED
    BY <2>1, <2>2
<1>6. Promised' = Promised
  BY <1>3, <1>4, <1>5 DEF Promised
<1>7. MayFail' = MayFail
  BY <1>3 DEF MayFail
<1> QED
  BY <1>6, <1>7

(* When a chunk is about to be returned it is full, or it holds all that is  *)
(* left of the table.                                                        *)
LEMMA ChunkIsNext ==
    ASSUME TableInv, pc = "cast"
    PROVE  /\ Len(output) \in Nat /\ size \in 0 .. VectorSize /\ VectorSize \in Nat \ {0}
           /\ PromisedRows \in Nat
           /\ Len(output) + size <= PromisedRows
           /\ size < VectorSize => Len(output) + size = PromisedRows
<1>1. /\ TypeOK /\ LoopStatus /\ RowBounds /\ RowsCounted /\ FilledToEnd /\ TableGoesOn /\ TableIsOver
  BY DEF TableInv, ScanInv, CoreInv, PromiseInv
<1>2. /\ Len(output) \in Nat /\ size \in 0 .. VectorSize /\ VectorSize \in Nat \ {0}
      /\ last_row \in Int /\ range.beg.row \in Int /\ range.end.row \in Int
  <2>1. output \in Seq([RangeCols -> Value(ChunkKinds)])
    BY <1>1 DEF TypeOK
  <2>2. /\ size \in 0 .. VectorSize /\ VectorSize \in Nat \ {0}
        /\ last_row \in 0 .. MaxRow /\ MaxRow \in Nat
    BY <1>1, ScanAssumption DEF TypeOK
  <2>3. range.beg.row \in 1 .. MaxRow + 1 /\ range.end.row \in 1 .. MaxRow + 1
    BY <1>1, SheetFacts
  <2> QED
    BY <2>1, <2>2, <2>3
<1>3. /\ PromisedRows \in Nat
      /\ TableEndsAt(range.beg.row + PromisedRows)
      /\ \A m \in 0 .. PromisedRows - 1 : ~TableEndsAt(range.beg.row + m)
  BY <1>1, PromisedFacts
<1>4. InCall /\ Written = Len(output) + size
  BY DEF InCall, Written
<1>5. Len(output) + size <= PromisedRows
  <2> SUFFICES ASSUME PromisedRows < Len(output) + size PROVE FALSE
    BY <1>2, <1>3
  <2>1. PromisedRows \in 0 .. Written - 1
    BY <1>2, <1>3, <1>4
  <2> QED
    BY <1>1, <1>3, <2>1 DEF TableGoesOn
<1>6. ASSUME size < VectorSize PROVE Len(output) + size = PromisedRows
  <2>1. TableEndsAt(range.beg.row + Written)
    <3>1. CASE Filling
      <4>1. last_row + 1 >= range.end.row /\ last_row < range.end.row
        BY <1>1, <1>6, <3>1 DEF FilledToEnd, RowBounds
      <4>2. last_row = range.beg.row - 1 + Len(output) + size
        BY <1>1, <1>4, <3>1 DEF RowsCounted
      <4>3. range.beg.row + (Len(output) + size) = range.end.row
        BY <1>2, <4>1, <4>2
      <4> QED
        BY <1>4, <4>3 DEF TableEndsAt
    <3>2. CASE ~Filling
      <4>1. ~Live
        BY <1>1, <1>2, <1>6 DEF LoopStatus
      <4> QED
        BY <1>1, <3>2, <4>1 DEF TableIsOver
    <3> QED
      BY <3>1, <3>2
  <2>2. Len(output) + size \notin 0 .. PromisedRows - 1
    BY <1>3, <1>4, <2>1
  <2> QED
    BY <1>2, <1>3, <1>5, <2>2
<1> QED
  BY <1>2, <1>3, <1>5, <1>6

(* A call that returns rows delivers the next rows of the table, as many as  *)
(* a vector holds or all that are left; one that returns none completes it.  *)
LEMMA ReturnIsDelivery ==
    ASSUME TableInv, TableInv', ReturnChunk
    PROVE  Table!Next
<1>1. /\ TypeOK /\ TypeOK' /\ OutputIsTable /\ OutputIsTable'
  BY DEF TableInv, ScanInv, CoreInv, PromiseInv
<1>2. pc = "cast" /\ (pc' = IF size = 0 THEN "done" ELSE "idle") /\ UNCHANGED fixedVars
  BY DEF ReturnChunk
<1>3. /\ Len(output) \in Nat /\ size \in 0 .. VectorSize /\ VectorSize \in Nat \ {0}
      /\ PromisedRows \in Nat
      /\ Len(output) + size <= PromisedRows
      /\ size < VectorSize => Len(output) + size = PromisedRows
  BY <1>2, ChunkIsNext
<1>4. Promised' = Promised /\ MayFail' = MayFail
  BY <1>1, <1>2, PromisedIsFixed
<1>5. /\ Len(output') = Len(output) + size
      /\ size = 0 => output' = output
  <2>1. Len(output') = Len(output) + size
    BY <1>1, ReturnedRows
  <2>2. /\ output \in Seq([RangeCols -> Value(ChunkKinds)])
        /\ output' \in Seq([RangeCols' -> Value(ChunkKinds)'])
    BY <1>1 DEF TypeOK
  <2>3. \A i \in 1 .. Len(output) : output'[i] = output[i]
    BY <1>1, ReturnedRows
  <2>4. size = 0 => output' = output
    BY <1>3, <2>1, <2>2, <2>3
  <2> QED
    BY <2>1, <2>4
<1>6. Len(Promised) = PromisedRows
  BY <1>3 DEF Promised
<1>7. /\ \A i \in 1 .. Len(output) : output[i] = Promised[i]
      /\ \A i \in 1 .. Len(output') : output'[i] = Promised[i]
  <2>1. /\ output \in Seq([RangeCols -> Value(ChunkKinds)])
        /\ output' \in Seq([RangeCols -> Value(ChunkKinds)'])
    BY <1>1, <1>2, FixedFacts DEF TypeOK
  <2>2. \A i \in 1 .. PromisedRows :
          Promised[i] = [c \in RangeCols |-> PromisedValue(range.beg.row + i - 1, c)]
    BY DEF Promised
  <2>3. \A i \in 1 .. Len(output) :
          output[i] = [c \in RangeCols |-> PromisedValue(range.beg.row + i - 1, c)]
    BY <1>1, <2>1 DEF OutputIsTable
  <2>4. \A i \in 1 .. Len(output'), c \in RangeCols :
          output'[i][c] = PromisedValue(range.beg.row + i - 1, c)
    BY <1>1, <1>2, FixedFacts, FixedPromise DEF OutputIsTable
  <2>5. \A i \in 1 .. Len(output') :
          output'[i] = [c \in RangeCols |-> PromisedValue(range.beg.row + i - 1, c)]
    BY <2>1, <2>4
  <2>6. \A i \in 1 .. Len(output') : i \in 1 .. PromisedRows
    BY <1>3, <1>5
  <2>7. \A i \in 1 .. Len(output) : i \in 1 .. PromisedRows
    BY <1>3
  <2> QED
    BY <2>2, <2>3, <2>5, <2>6, <2>7
<1>8. Phase = "scanning" /\ Phase' = IF size = 0 THEN "complete" ELSE "scanning"
  BY <1>2 DEF Phase
<1>9. CASE size = 0
  <2>1. Len(output) = PromisedRows
    BY <1>3, <1>9
  <2>2. output = Promised
    <3>0. output \in Seq([RangeCols -> Value(ChunkKinds)])
      BY <1>1 DEF TypeOK
    <3>1. output = [i \in 1 .. Len(output) |-> output[i]]
      BY <3>0
    <3>2. Promised = [i \in 1 .. PromisedRows |-> Promised[i]]
      BY DEF Promised
    <3> QED
      BY <1>7, <2>1, <3>1, <3>2
  <2>3. Table!Complete
    BY <1>4, <1>5, <1>8, <1>9, <2>2 DEF Table!Complete
  <2> QED
    BY <2>3 DEF Table!Next
<1>10. CASE size # 0
  <2>1. Len(output) < Len(Promised)
    BY <1>3, <1>6, <1>10
  <2>2. Len(output) + size = Len(output) + (IF Len(Promised) - Len(output) < VectorSize
                                            THEN Len(Promised) - Len(output) ELSE VectorSize)
    BY <1>3, <1>6
  <2>3. output' = SubSeq(Promised, 1, Len(output) + size)
    <3>1. output' = [i \in 1 .. Len(output) + size |-> output'[i]]
      BY <1>1, <1>5 DEF TypeOK
    <3>2. SubSeq(Promised, 1, Len(output) + size) = [i \in 1 .. Len(output) + size |-> Promised[i]]
      BY <1>3, <1>6
    <3> QED
      BY <1>5, <1>7, <3>1, <3>2
  <2>4. Table!Deliver
    BY <1>4, <1>8, <1>10, <2>1, <2>2, <2>3 DEF Table!Deliver
  <2> QED
    BY <2>4 DEF Table!Next
<1> QED
  BY <1>9, <1>10

(* An exception is one the table allows: a reference that does not belong to *)
(* its row, or a datum the cast rejects in a row of the range.               *)
LEMMA ThrowIsAllowed ==
    ASSUME TableInv, TableInv', CellThrows \/ CastThrows
    PROVE  Table!Next
<1>1. /\ TypeOK /\ TypeOK' /\ RowBounds /\ SlotsHoldRows
  BY DEF TableInv, ScanInv, CoreInv, DataInv
<1>2. pc \in {"parse", "cast"} /\ pc' = "failed" /\ UNCHANGED fixedVars /\ output' = output
  BY DEF CellThrows, CastThrows, MayCallBack
<1>3. Promised' = Promised /\ MayFail' = MayFail
  BY <1>1, <1>2, PromisedIsFixed
<1>4. MayFail
  <2>1. CASE CellThrows
    BY <1>1, <2>1 DEF CellThrows, Kind, RowBounds, MayFail
  <2>2. CASE CastThrows
    <3>1. PICK s \in Slots, c \in RangeCols : CastFails(s, c)
      BY <2>2 DEF CastThrows
    <3>2. HoldsRow(s, sheet_row_number[s])
      BY <1>1, <2>2, <3>1 DEF CastThrows, InCall, SlotsHoldRows, CastFails, Null
    <3>3. RawValue(sheet_row_number[s], c).kind = "bad"
      BY <3>1, <3>2 DEF CastFails, HoldsRow
    <3>4. sheet[sheet_row_number[s]].cells[c] = "bad"
      BY <1>1, <3>3, RawFacts DEF HasDatum, Datum
    <3> QED
      BY <2>2, <3>1, <3>2, <3>4 DEF CastThrows, CastFails, HoldsRow, MayFail
  <2> QED
    BY <2>1, <2>2
<1>5. Phase = "scanning" /\ Phase' = "failed"
  BY <1>2 DEF Phase
<1>6. Table!Fail
  BY <1>2, <1>3, <1>4, <1>5 DEF Table!Fail
<1> QED
  BY <1>6 DEF Table!Next

(* The streaming scan implements the table scan: the calls of Execute        *)
(* deliver the rows of the range in order, a vector at a time, NULL where    *)
(* the worksheet has nothing, end when they are all delivered and fail only  *)
(* for a cell that justifies it, whatever the worksheet (without <row        *)
(* r="5"/>), the range, the options, the size of a vector and the blocks.    *)
THEOREM ScanImplementsTable ==
    ASSUME NoSelfClosing
    PROVE  Spec => KeepsPromise
<1>1. Init => Table!Init
  BY DEF Init, Table!Init, Phase
<1>2. TableInv /\ TableInv' /\ [Next]_vars => [Table!Next]_Table!vars
  <2> SUFFICES ASSUME TableInv, TableInv', [Next]_vars PROVE [Table!Next]_Table!vars
    OBVIOUS
  <2>1. CASE ReturnChunk
    BY <2>1, ReturnIsDelivery
  <2>2. CASE CellThrows \/ CastThrows
    BY <2>2, ThrowIsAllowed
  <2>3. CASE ~(ReturnChunk \/ CellThrows \/ CastThrows)
    <3>1. UNCHANGED fixedVars /\ UNCHANGED output /\ Phase' = Phase
      BY <2>3
      DEF Next, Loop, Callback, vars, Call, SkipRows, StopAtSkippedRow, Resume, ReadBlock, LeaveLoop,
          BeginRow, Cell, EndRow, EndSheetData, ParserReturns, FillRows, Terminated, MayCallBack, Phase
    <3>2. Promised' = Promised /\ MayFail' = MayFail
      BY <3>1, PromisedIsFixed DEF TableInv, ScanInv, CoreInv
    <3> QED
      BY <3>1, <3>2 DEF Table!vars
  <2> QED
    BY <2>1, <2>2, <2>3
<1>3. Spec => []TableInv
  BY TableCorrect
<1> QED
  BY <1>1, <1>2, <1>3, PTL DEF Spec, KeepsPromise, Table!Spec
=============================================================================
