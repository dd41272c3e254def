# Verification of the DuckDB excel extension

This directory holds TLA+ models of the xlsx reader and writer of this
repository, the configurations that check them with TLC, and proofs about them
that the TLA+ proof system (tlapm) checks. Paths such as
`xlsx/read_xlsx.cpp` are relative to `src/excel` (headers:
`src/excel/include`).

## 1. The system

The extension adds to DuckDB a table function `read_xlsx`, a copy function
`COPY ... (FORMAT xlsx)` in both directions, and the scalar functions `text`
and `excel_text`.

| Component | State it keeps | Operations | Where |
|---|---|---|---|
| Sheet lookup | package metadata: sheets, relationships, content types | `ParseXLSXFileMeta` | `xlsx/read_xlsx.cpp`, `parsers/workbook_parser.hpp`, `parsers/relationship_parser.hpp`, `parsers/content_types_parser.hpp` |
| Sniffing | range found so far, header and column cells | `RangeSniffer`, `HeaderSniffer`, `SniffHeader` | `parsers/worksheet_parser.hpp`, `xlsx/read_xlsx.cpp` |
| Streaming scan | chunk, next slot, last row and column, parser status, position in the zip entry | `Execute`, `SheetParser`, `XMLParser` | `xlsx/read_xlsx.cpp`, `parsers/worksheet_parser.hpp`, `xml_parser.hpp` |
| Shared strings | string table, positional index | `SharedStringParser`, `SharedStringSearcher`, `StringTable` | `parsers/shared_strings_parser.hpp`, `string_table.hpp` |
| Cell styles | number formats, cell styles by position | `XLSXStyleParser`, `WriteStyles`, `ResolveStyles`, `PatchStylesXml` | `parsers/stylesheet_parser.hpp`, `xlsx_writer.hpp`, `xlsx_appender.hpp` |
| Fresh workbooks | active sheet, sheet list | `XLXSWriter` | `xlsx_writer.hpp` |
| Append and replace | metadata of the old workbook, ids of the new sheet, temporary file | `XLSXAppender` | `xlsx_appender.hpp` |
| COPY | options, writer or appender, cast chunk, rows written | `Bind`, `InitGlobal`, `Sink`, `Finalize` | `xlsx/copy_xlsx.cpp`, `xlsx_writer.hpp` |
| Zip layer | the open entry, whether the central directory is written, bytes read | `ZipFileReader`, `ZipFileWriter` | `xlsx/zip_file.cpp` |
| Conversions | none | cell references, serial dates, XML escaping | `xlsx_parts.hpp`, `xlsx/read_xlsx.cpp`, `xml_util.hpp` |
| TEXT | the format made of a code, the section chosen | `NumberFormatFunction`, `GetNumberFormatString` | `excel_extension.cpp` |
| Number formatter | symbols and type of a section while it is scanned; text and position while a number is filled in | `ImpSvNumberformatScan`, `SvNumberformat`, calendar, locale | `numformat/` |

**How they interact.** Binding a query opens the zip file, looks the sheet up,
reads the styles, and sniffs the range, the header and the types; then it
closes the file. When the query runs, `InitGlobal` opens the file again, loads
the shared strings and opens the sheet's entry. `Execute` is then called until
it returns an empty chunk: it feeds blocks of the entry to expat, expat calls
`SheetParser` back, and `SheetParser` asks the parser to stop when the chunk is
full or rows are missing. `COPY TO` decides once, when it starts, whether to
write a fresh workbook or to extend the one that is there. The appender reads
the old metadata, closes the file, opens it again to copy its entries into a
temporary file, writes one worksheet and the patched metadata, and puts the
temporary file in the place of the old one. `Sink` casts every chunk into one
chunk it keeps and writes it row by row into the worksheet's zip entry. `text`
is separate from all this: for every row it scans the format code, chooses one
of its sections and writes the number with that section's symbols.

**What is hard.** Control is inverted twice in the scan (DuckDB pulls chunks,
expat pushes callbacks), and whatever is not finished when a chunk is full has
to survive in a suspended parser. The appender must not collide with ids,
names and positions that any other program may have chosen. Between its steps
calls fail, the process dies and other statements use the same file; nothing
locks it. The formatter is sequential, but it writes numbers from back to front
into symbols that several functions share by counting, and what it does at a
carry, at a boundary of the calendar or at a code with fewer places than digits
is spread over all of them. `PROJECT.json` lists each of these hazards at its
line.

**What makes each part correct.** The lookup finds every sheet under its own
name; sniffing makes names, types and range describe the same columns and
rows; the scan delivers each row of the range once, in order and in place;
styles keep their position and type; COPY changes the one sheet it names and
nothing else; the sheet is the table the query delivered, and a file that can be
read holds all of it; a workbook that was complete is not lost on the way; what
`text` returns, read back, is the number it was given.

## 2. The modules

| Module | Models | Composes / implements |
|---|---|---|
| `TableScan` | abstract: what a scan promises to a query | |
| `SheetScan` | `Execute`, `SheetParser`, suspend and resume of `XMLParser` | |
| `ScanProperties` | properties and inductive invariants | `SheetScan` implements `TableScan` |
| `ScanProofs` | theorems about `SheetScan`: parser, loop and chunk; the data; the refinement | |
| `SheetSniff`, `SniffProperties` | `RangeSniffer`, `HeaderSniffer`, `SniffHeader` | yields the range `SheetScan` starts from |
| `SniffProofs` | theorems about `SheetSniff` | |
| `XLSXPackage` | a workbook file; lookup; a fresh workbook | |
| `XLSXAppender` | allocation of ids, append, replace | extends `XLSXPackage` |
| `SheetDirectory` | abstract: what COPY promises about the sheets | |
| `CopyStatements`, `CopyProperties` | COPY statements one after another | `CopyStatements` implements `SheetDirectory` |
| `CopyProofs` | theorems about `CopyStatements` | |
| `WorkbookSwap`, `SwapProperties` | the steps inside a COPY; failures, crashes, overlap | implements `SheetDirectory`, too |
| `SwapProofs` | theorems about `WorkbookSwap` | |
| `XLSXStyles`, `StylesProperties` | formats and cell styles over appends and edits | |
| `StylesProofs` | theorems about `XLSXStyles` | |
| `SharedStrings`, `StringsProperties` | search for the header's strings, load of the string table | |
| `StringsProofs` | theorems about `SharedStrings` | |
| `CopySink`, `SinkProperties` | one COPY from its options to the destruction of its writer: chunks, rows, limit, zip entries | extends `SerialDates`; what happens to the file before and after is `WorkbookSwap` |
| `SinkProofs` | theorems about `CopySink` | |
| `SerialDates` | dates and times as serial numbers, both directions | |
| `TextFunction`, `TextProperties` | `text`: one row after another | composes the formatter's modules |
| `FormatScan`, `FormatSections` | scanning of a section; sections, conditions and the choice between them | |
| `NumberOutput`, `FractionOutput`, `DateOutput` | numbers and percentages; fractions and exponents; dates and times | over `FormatSections` |
| `NfCalendar`, `TextNumbers` | the calendar; numbers and their digits | |
| `Ascending` | a finite set of numbers as a sequence, the least first | used by `SharedStrings` and `CopySink` |
| `CivilCalendar` | the Gregorian calendar and the weeks of ISO 8601, by formulas of their own | what `NfCalendar` is compared with |
| `OperatorProofs` | induction, least and greatest elements, recursive functions: lemmas the proofs share; theorems about `NfCalendar` | |

The `MC...` modules define rows, workbooks, stylesheets and statements for the
configurations and nothing else.

A definition that stands in front of another and differs from it in one place
(`RetryFsOpOnceMore` and `RetryFsOp`, `NoReset` and `Reset`) is a *mutant*: the
same definition with a bug a programmer could have made. No specification uses
them. For each property of each passing run `PROJECT.json` names a mutant that
breaks it.

### 2.1 SheetScan

State and code correspond one to one: `chunk`, `size`, `out_index`, `last_row`,
`last_col`, `curr_row`, `is_row_empty` and `sheet_row_number` are the members of
`SheetParser`; `xml` is `XMLParser::state`, `status` the copy `Execute` keeps;
`blocks_left` is what is left of the entry; `pc` is the place in `Execute`. The
worksheet, the range and the options are chosen in `Init`. The document is not
turned into a list of events: the next callback follows from the worksheet and
`cell_pos`.

| Action | Code |
|---|---|
| `Call`, `LeaveLoop`, `ReturnChunk` | entry, loop condition and exit of `Execute` |
| `SkipRows`, `StopAtSkippedRow`, `Resume` | the branches for a suspended parser |
| `ReadBlock`, `ParserReturns` | `Read` and `Parse` |
| `BeginRow`, `Cell`, `CellThrows`, `EndRow`, `EndSheetData` | callbacks, with everything they call |
| `FillRows`, `CastThrows` | padding to the end of an explicit range; casts |

Two facts about expat are modelled from outside: a stop takes effect between
tokens, and `<row r="5"/>` is one token with two callbacks (`InsideToken`).
A vector that is reused holds `Stale` values until they are written, so leaking
one is visible. Cell contents are abstracted to what the code tells apart: no
element, no data, an empty string, data the cast accepts or rejects, and a
reference that contradicts the row.

### 2.2 SheetSniff

Both sniffers read the worksheet from its beginning, one callback per step;
`phase` says which of them reads. `range`, `first_row`, `last_col`,
`header_cells` and `column_cells` are `HeaderSniffer`'s members, `found`,
`beg_col` and `end_col` are `RangeSniffer`'s. `Resolve` and `Fail` are
`SniffHeader`. A cell is its kind and position; a name says where it comes from
(a cell, a column letter or a position). `XLSX_MAX_CELL_COLS` is `MaxCol`, and
the default range excludes that column as the code does.

### 2.3 XLSXPackage, XLSXAppender, CopyStatements

A package is a record of four things: the `<sheet>` elements, the
relationships, the overrides, and the zip entries, each name with all the
contents stored under it (zip files may hold a name twice; the last counts).
XML text is left out; names and ids are kept as far as the code looks into
them: a relationship id is `rId` and a number, the same with a leading zero, or
something else. `Fold` is the writer's comparison without case, `Unescape` the
reader's second unescaping. Every COPY is one step: `CopyFresh`, `CopyAppend`,
`CopyReplace`, or `Refuse` when the appender's constructor throws.

### 2.4 WorkbookSwap

Here a COPY is a sequence of calls, each a step, and a workbook is only its
sheet names and parts. `path` maps names to inodes and `inode` holds the files,
so that a rename, a truncation and a file that two statements have open come
out right. A file is `whole` when its central directory is written. That is not
`Finalize`'s doing: it mistakes an open writer for a closed one and returns, so
the directory comes with the destructor (`DestroyWriter`), after the appender's
`Finish` has moved the file. `RetryFsOp` is one failed try of `RemoveFile` or
`MoveFile`, `GiveUp` the catch block, `InputThrows` an exception of the row
source or the row limit, `Crash` the end of the process. `published` is a
history variable: every workbook that has been put in place and is complete.
This is the path in which the appender swaps the files itself; the framework's
own temporary file (`USE_TMP_FILE`) is DuckDB's code.

### 2.5 XLSXStyles

A stylesheet is the list of number formats and the list of cell styles. The
reader's view (`CellStyles`, with the entries it skips) and the appender's view
(all entries) are separate definitions, as they are separate parsers in the
code. `WriteSheet` is an append or replace that writes cells of every kind,
`OtherProgramAdds` an edit by a spreadsheet program that keeps what is there.

### 2.6 SharedStrings

`phase` is who reads the entry: first the searcher in `Bind`, then the loader in
`InitGlobal`. The document is the sequence of callbacks expat makes for it, and
`rest` what is left of it; text comes in pieces, so that one string takes
several callbacks. `state`, `data`, `current_idx`, `current_str`, `ids` and
`result` are members of the parsers, `table`, `index` and `arena` those of
`StringTable`. A reference in `index` holds a short string in place or points
into the arena or into `data`, as a `string_t` does; `Get` follows it when it is
called, so that a pointer into the reused buffer would be seen.

### 2.7 CopySink

`options` is what the statement says, `types` the columns of the query, `taken`
the chunks it has delivered, `sheet` the rows written. `nulls` is what matters
of `cast_chunk`: one validity mask per column, which outlives the chunk unless
`Reset` clears it. A vector of the input is flat, constant or a dictionary, and
`Execute` treats the mask differently for each, as DuckDB's casts do; this
part, and `IsValid` for `ToUnifiedFormat`, model DuckDB from how the sink uses
it. `entries`, `open` and `directory` are the zip writer.

| Action | Code |
|---|---|
| `Bind` | `ParseCopyToOptions`, and what the appender's constructor decides to copy |
| `CopyEntry` | `CopyCurrentEntryFrom` |
| `BeginSheet`, `WriteHeader` | `InitGlobal` |
| `Sink` | `Sink` with the cast, the cells of every row, and `EndRow` with the row limit |
| `EndSheet`, `BeginPart`, `EndPart`, `Finish` | `Finalize`, `Finish`, `EmitMetadata` |
| `WriteFails` | an exception of any call that writes, or of the query |
| `DestroyWriter`, `DestroyWriterFails` | `~ZipFileWriter`, after success and failure alike |

A value is a number of days or ticks, and a cell holds it as `ToSerial` makes
it. A limit is an INTEGER that is kept in an unsigned `IdxWidth`-bit number, so
that a negative one becomes large. `SinkProperties` reads the cells back with
`FromSerial`, that is, with the rounding of `ExcelToEpochUS`, and with the
letters of their column. The zip's directory entries are left out: their result
is ignored and nothing reads them.

### 2.8 TEXT

`TextFunction` takes one row at a time: `ReadCode` is the constructor of
`SvNumberformat`, `ChooseSection` the choice of `nIx`, and each `Show...` a
branch of `GetOutputString`, which has one for an empty section, literals,
numbers, fractions, exponents, dates, times and both. `InternalError` is the
exception that ends the query. Everything below are operators, one per function
of the formatter or part of it:

- A format code is a sequence of atoms: special characters, whole keywords and
  literals. `FormatScan` cuts it into symbols and keeps the look-back and
  look-ahead of the source (`PreviousKeyword`, `NextChar`), its table of types
  (`Combine`) and its counters (`pre`, `post`, `exp`).
- `FormatSections` is the loop over the sections. An error there ends the loop
  and is forgotten, and the sections read so far stay in force (`Cancel`).
- `NumberOutput` and `FractionOutput` fill symbols from back to front. `str` and
  `k` are the source's text and position, `count`, `next` and `lead` what
  `ImpNumberFillWithThousands` and `ImpDigitFill` pass to each other.
- `FractionOutput` also has the search for the nearest fraction: entry into the
  Farey series, neighbours, mirrored upper half, and the two other ways, for
  four places and more and for a denominator in the code.
- `DateOutput` and `NfCalendar` are the clock, the date and the calendar.

Numbers are exact fractions with a sign. The code computes in doubles; the
numbers of a run are chosen where both agree. The model was compared once with
the 106 examples of `test/sql/excel/test_excel_numformat.test` that show a
number (the file is switched off by `mode skip`): it returns the text given
there for all 91 that TLC can evaluate. The other 15 need intermediate numbers
of 2^31 and more (long times such as `[ss]` of 12345.678, and numbers in the
billions), which TLC's integers cannot hold.

## 3. What is checked

| Run | Shows |
|---|---|
| `scan` | every worksheet of up to four rows, with missing rows and every kind of cell, every range, option and division into blocks: `SheetScan` implements `TableScan` (`KeepsPromise`), ends (`ScanEnds`), keeps the inductive invariant of the proofs (`TableInv`), fills an explicit range (`ExplicitRangeComplete`), loses, doubles and reorders no datum (`DataOnceInOrder`), and names the right cell in an error (`ErrorNamesCell`) |
| `sniff_sheets` | names, types and range describe the same columns (`ColumnsAgree`, `TypesDescribeData`); the header is not data; the scan can start |
| `strings_twice` | header and cells get the string with their id, although equal strings share one copy; the search ends after the last id |
| `copy_statements` | five COPYs in a row in every mode on workbooks of the extension and of others: COPY implements `SheetDirectory`; ids and parts never collide (`CopyInv`, the inductive invariant of the proofs); each sheet reads back as what was written to it last; untouched parts keep their contents |
| `copy_sink` | the sheet is the table, whatever was NULL in which form of vector (`SheetIsTable`); the row limit is the option's (`RowLimitHolds`); whatever fails, a file that can be bound and parsed holds every row (`ReadableIsComplete`); a COPY comes to an end with a complete file unless something failed (`CopySucceeds`) |
| `swap_serial` | two COPYs in turn and a scan, with every failure: `SheetDirectory` is implemented; no sheet is lost outside the swap (`KeptOrReady`); an incomplete file has a known cause (`TornOnlyByFresh`); a scan reads the sheet it was bound to; retries end |
| `swap_overlap` | two overlapping appends or replaces: a complete workbook is always consistent (`WholeIsConsistent`); the inductive invariant `KeepInv` of the proofs |
| `styles_append` | appends and edits in any order: cells keep their types, positions stay, and `styles.xml` stops growing |
| `text` | 93 codes with numbers around their boundaries, 7003 rows: the number read back from the text is the nearest one the code has places for, as a decimal, a fraction or with an exponent (`ValueIsShown`); thousands in groups of three; the section the code's conditions ask for; clock, moment and week read back, with definitions that share nothing with the formatter's |

The other runs expect a violation: each shows, on a small instance, where the
program disagrees with what a comment or the repository's README says of it.

| Run | What it shows |
|---|---|
| `scan_gap_rows_dropped` | the gap in front of `<row r="5"/>` is not padded, an explicit range comes back too short |
| `swap_loses_book` | a process that dies between `RemoveFile` and the destruction of the writer leaves no workbook, neither the old one nor the new; so does a move that keeps failing |
| `text_minus_zero` | a negative number that rounds to zero is shown with its sign, against the comment "not -0.00" |

The models show smaller disagreements too, which have no run of their own. The
definition that shows each is in brackets.

- `FillRows` maps the rows it adds to the sheet row above; they are NULL, so no
  message uses the entry (`FillRows`).
- A cell that is missing, unlike a blank one, does not end the columns of a
  sniffed range (`OnRangeCell`).
- A worksheet part without a relationship is not seen when a part is named, so
  that the zip gets two entries of one name (`UsedIndices`). An append needs
  `styles.xml`, which is optional, and refuses a workbook with an empty sheet
  name, which COPY writes (`IsReadable`). `WorkbookOK` holds of the workbooks the
  run starts from, which are free of these.
- Sheets named `&` and `&amp;` are one sheet to the reader, which unescapes the
  names a second time (`Unescape`, in `CandidatesFor`).
- Between remove and move there is no workbook (`RemoveDest`), and a sheet that
  was there at bind time can be missing when the scan starts (`InitGlobal`).
- A cell style for a format the stylesheet does not define is skipped by the
  reader and counted by the appender, which shifts every position behind it
  (`CellStyles`). The stylesheets of `styles_append` define their formats.
- A time less than a millisecond before midnight is rounded up and comes back as
  00:00:00 (`SameValue`).
- The destructor of the zip writer closes the archive after a failure, too. The
  file a failed COPY leaves behind opens, and a fresh one may name its sheets,
  but the sheet does not parse (`DestroyWriter`, `ReadableIsComplete`). A failing
  stream inside that destructor ends the process (`DestroyWriterFails`).
- A code with more digits behind the point than the number has, such as
  `text(0, '0.05')`, reads in front of the text and ends the query with
  "Unexpected result for number format" (`Overruns`, `InternalError`).
- `MAX_DAYS` is 27.6.9957: later serials are shown as 31.12.9999 (`AddDays`).
  Day 1 is 1.1.0001 and comes back as 31.12.0000 (`YearOf`). Both ends are
  outside the theorems about the calendar.
- The code `@` shows negative numbers as characters below `0`, because
  `doubleToString` asks for `fabs(x) < 0.0` (`SignlessDigits`).
- With `[>100]0;0` a negative number loses its sign: only the first section
  writes one (`NumberText`).
- A fraction that comes out as zero still shows the zeros of its denominator:
  2.0002 with `# #/100` is `2  00` (`NumberFill`).
- With four places or more for the denominator the shortened fraction may be
  almost a hundredth off, and may be one over one: 3.99123 with `# ????/????` is
  shown as 3 1/1 (`ReducedRound`). Up to three places there is no such case.

### Bounds, and why they are enough

- **Scan.** `VectorSize` is 2 instead of 2048, with up to four rows, so chunks
  fill up before, inside and after gaps and at the end of the sheet, and a
  scan takes up to three chunks. The parser's state does not depend on how many
  chunks came before. Columns only interact through `last_col`; two columns
  have a gap at either side. Two blocks suffice for a parser that is suspended
  on the last block, or not. `<row r="5"/>` is in `scan_gap_rows_dropped` only,
  as the other properties' premises exclude it. The proofs need none of these.
- **Sniffing.** Three rows: one above the header, the header, one below; three
  columns for a gap inside and at both edges.
- **Strings.** Three strings, so that an id can be the first, the last and in
  between; texts of up to two pieces, short ones in place and long ones in the
  arena; headers of up to three columns with repeated, unordered and unknown ids.
- **COPY.** Five statements over four names, two of which differ in case only.
  Allocation depends on maxima and on the least free number; the initial
  workbooks have gaps, leading zeros, letters, chart sheets, reordered sheets
  and doubled zip entries.
- **Swap.** Two attempts instead of 40: what counts is the first, a repeated
  one and the last. Two writers and one reader: the code has no interaction of
  three.
- **Sink.** Chunks of up to two rows, two of them: what leaks from a chunk to
  the next shows in the second. Three columns cross the second letter of a
  column name, since there are two letters instead of 26; four rows stand for
  1048576, four bits for 64 (a limit of -1 wraps), four seconds of ten ticks for
  a day, with values around a second, midnight and the epoch.
- **TEXT.** The codes have every symbol the scanner knows, alone and combined.
  Numbers are those where an answer changes: zero and what rounds to it, a carry
  through every digit, one digit more or fewer than the places, the limits of
  conditions; half a second and a second around midnight and noon; ends of
  months, leap and common years, the first days of the calendar; the fifteen
  days around 146 new years; fractions with denominators 48 and 97, which
  reach every branch of the search for one and two places.
- **Styles.** Four changes, third-party stylesheets with up to two formats and
  three styles; the writer itself needs five formats.

### Fairness

`ScanEnds` assumes weak fairness of the scan's steps: one thread runs
`Execute`, nothing in it waits for another, and DuckDB calls it again until the
chunk is empty. `CopyEnds` assumes weak fairness of a COPY that has begun, for
the same reason; nothing obliges a statement to begin, a failure to happen or
to cease, or a process to die. `CopySucceeds` assumes weak fairness of the
statement's own steps: the pipeline calls `Sink` while there are chunks and
`Finalize` afterwards. `WriteFails` has no fairness, so nothing is assumed about
failures. The other specifications need none.

Deadlock checking is on for scan, sniffing and strings, which have an explicit
terminated state, and for TEXT, which goes on with the next row. It is off for
COPY and styles, where the number of statements is bounded, and for the swap
and the sink, where all statements may have ended.

## 4. What is proved

Every theorem below holds for all values of the constants that the named
assumptions allow, and tlapm checks it down to the last step. Together they
state every invariant, action property and refinement of the passing runs except
those of `text`: of `scan`, `sniff_sheets`, `strings_twice`, `copy_statements`,
`copy_sink`, `swap_serial`, `swap_overlap` and `styles_append`. Some need a
condition, which the theorem and the text below name.

An invariant that says what matters is seldom inductive. Next to the properties
of a component stands the invariant that is, as a conjunction of named parts;
its proof has one case per action and one step per part that the action can
disturb. TLC has checked all of them on the constants of the runs; `TableInv`,
`CopyInv` and `KeepInv` stay invariants of runs.

A proof module depends on nothing but the modules it extends. To check one, run
`tlapm M.tla`; each takes minutes, the styles seconds.

### The scan

`ScanProofs`, for every vector size, worksheet, range, set of options and division
into blocks that satisfies `ScanAssumption`. The parser, the loop and the chunk:

- `TypeCorrect` and `CoreCorrect`: `CoreInv` holds, for every worksheet. It
  says that the parser, the loop and the chunk agree.
- `ScanCorrect`, `RowsStayAligned`, `ExplicitRangesAreComplete`: `ScanInv` holds;
  row *i* delivered is row *i* of the range, each value in its column, none left
  over from an earlier chunk; an explicit range read to its end yields all of
  its rows.

The data, for every worksheet:

- `DataCorrect`, `ErrorsNameTheirCell`, `EveryDatumOnce`: `DataInv` holds; a
  failed cast names a cell that holds what it rejected; a completed scan has
  delivered every datum of the range in exactly one row, in the order of the
  rows.

The refinement:

- `TableCorrect`, `ScanImplementsTable`: `TableInv` holds, and the scan
  implements `TableScan`.

`ScanCorrect`, what follows from it and the refinement assume `NoSelfClosing`
(no `<row r="5"/>`), and `scan_gap_rows_dropped` shows that
`ExplicitRangesAreComplete` is false without it. The theorems about data do not
need it: such a row drops the padding in front of it, never a datum.

**The argument.** `TypeOK` is not inductive: that `out_index` stays below
`VectorSize` depends on who reset it. `CoreInv` adds three parts.
`SlotsCounted`: as long as rows are written, `out_index` is the number of rows
in the chunk, or 0 when it is full. `RowBounds`: rows and columns stay inside
the range. `LoopStatus`: the loop's copy of the status repeats the parser's, a
full chunk is only left by suspending, and a parser that runs still has input.
`ScanInv` adds `RowsCounted` (`last_row` counts the rows delivered and those in
the chunk), `ParserPosition` (the parser is never ahead of the rows written,
except inside the row it is at), `SlotsLineUp` (finished slots hold the row
they are counted for, later slots nothing), `FilledToEnd`, and what the
theorems state of the rows (`RowsLineUp`, `NothingStale`).

`DataInv` says what the slots contain: a finished slot is padding or a whole row
that the parser has left behind (`SlotsHoldRows`), the row in progress is right
up to `last_col` and `is_row_empty` knows what it has seen (`RowInProgress`),
rows are in order (`DataInOrder`) and nothing passed is missing
(`DataComplete`). `PromiseInv` says it of the table: slots and output hold the
promised values, no row is written behind its end, and a scan that has stopped
has written all of it but for the padding `FillRows` still adds. From there the
refinement has three steps: a chunk handed out is the next part of the promise
(`ChunkIsNext`), so that returning it is a `Deliver` or the `Complete` of the
table (`ReturnIsDelivery`), and an exception is one the table allows
(`ThrowIsAllowed`). The promise is a CHOOSE, so `PromisedIsFixed` shows that its
length exists and that no step changes it.

### Shared strings

`StringsProofs`, for any `<si>` elements, number of them, header and pieces in
which the text arrives (`StringsAssumption`), and any bound of the strings that
are kept in place: `StringsAreInvariant` (`StringsInv` holds) and from it
`NamesAlwaysResolve`, `SearchAlwaysStops` and `TableAlwaysFollowsDocument`.

**The argument.** The automaton has four states and a flag, and none of them says
how much of an item has been read. `AtAPlace` does: as long as a parser runs, it
is before the table, between two items, between two runs of an item, before,
inside or behind the text of a run, and what it has yet to read (`rest`) is what
follows that place in the document; `data` holds the text said in the item before
the place, without the phonetic text (`Spoken`), and the items before it have been
handed over (`Passed`). There is one lemma for each place (`FromStart`,
`FromBetweenItems`, `FromBetweenRuns`, `FromBeforeText`, `FromInText`,
`FromAfterText`), and together they say that a callback leads to the next place,
ends the reading, or hands over the string of the item that is ending
(`PlaceStep`). Here the phonetic text counts: inside `<rPh>` the automaton does
not enter `T`, so `text_handler` is false and nothing is added to `data`.

The rest follows from what is handed over. `Searched`: an id has been found
exactly when its item has been passed, since the ids ascend (`IdsFacts`) and each
item advances both counters in step (`FindStep`); so the next id is never behind
the position, and the search stops with all of them or at the end of the
document. `Stored`: every slot and every key holds its string in place or at a
slot of the arena, which only grows (`StaysLasting`), so that the reuse of `data`
changes no string (`AddStep`). `FlattenSeq` is a recursion over the sequence;
`FlattenSteps` shows that it has values that satisfy its equations, and
`FlattenAppend` and `FlattenPrepend` follow from it at either end.

### Sniffing

`SniffProofs`, for every worksheet, request and header mode of
`SniffAssumption`: `SniffCorrect` (`SniffInv` holds) and from it
`ColumnsAlwaysAgree`, `HeaderIsNeverData`, `TypesAlwaysDescribeData`,
`ScanCanAlwaysStart`. `SniffInv` describes each sniffer in the middle of its
work by the rows and cells it has passed: what `RangeSniffer` has found is the
first run of cells of the rows so far (`RangeSniffed`, `RangeStarts`), what
`HeaderSniffer` has collected are the cells of its row up to `last_col`
(`HeaderTaken`, `HeaderSniffed`). `ReadyToResolve` and `Resolved` carry that over
the end of the document and the two ways `SniffHeader` goes.

### COPY

`CopyProofs`, for any names, tables, comparison functions, number of statements
and workbooks at the start: `CopyCorrect` (`CopyInv`: names, ids and parts never
collide, every sheet resolves and is declared, the last statement's sheet holds
its table), `SheetsKeepIdentity`, `OtherPartsAreKept`, `NoNameTwice`,
`CopyImplementsDirectory`; and under `NamesLegible`, `EverySheetReadsBack` and
`LatestStatementReads`.

- `WorkbooksAssumption`: the workbook at the start is in order. COPY repairs
  nothing: with two sheets of one id at the start there are two at the end.
- `NamesLegible`: the empty name is not used, and two names that are one string
  to the reader, which unescapes them a second time, are one to the writer,
  which does not and ignores case. Without it `read_xlsx` may well find another
  sheet: the empty name means the first one, and of `&` and `&amp;` it finds
  whichever comes first. The properties about the file itself do not need it.

**The argument.** The package before and after a statement is compared element
by element. `EntriesEffect` says what the new zip contains: every old entry but
those the appender writes itself, once, with the contents that counted.
`NumbersAreNew` says that a maximum plus one, and the least number no file name
has, are new; it needs that the sets are finite (`GreatestExists`,
`LeastExists`). `AppendEffect` and `ReplaceEffect` put the two together, and each
theorem follows from them and from `WorkbookOK` of the package before.

### The sink

`SinkProofs`, for any query, chunks, options, old workbook and failures:
`SinkIsInvariant` (`SinkInv` holds), `RowLimitIsKept`, `ReadableIsAlwaysComplete`
and `SheetIsAlwaysTheTable`. The assumptions describe what DuckDB hands over and
which numbers the code has:

- `ChunksAssumption`: a chunk has a vector for each column, of one length of at
  most `VectorSize` rows, whose selection and mask are in its data.
- `OldEntriesAssumption`: the workbook that is extended has the three parts every
  workbook needs, and the name chosen for the new worksheet is free, as
  `NumbersAreNew` proves of the appender's allocation.
- `WidthAssumption`: a limit fits into `idx_t`, and a negative one, wrapped, is
  at least what the chunks of a COPY can hold. With 64 bits that is 2^63 and more;
  `MaxChunks` is the only bound in it. That 2^`IdxWidth` is a natural number is
  stated here because the provers do not know it of powers.
- `SerialAssumption`: a day is a whole number of seconds, and the tolerance is
  positive and at most half a second.

**The argument.** `EntriesInOrder`: the entries are a prefix of the parts in the
order they are written (`Parts`: those that are copied, the sheet, the metadata),
and only the last may be unfinished, whether it is open or was cut off. No part
is named twice, so no entry is either; every part a reader needs comes with the
metadata, which is behind the sheet, and the sheet's entry is only finished after
the last row (`SheetDone`). Hence a file that can be read has the whole table.
`RowsCounted`: while the statement runs the rows of all chunks are in the sheet,
and their number has been compared with the limit. `RowsAreSunk`: each row is what
`Sink` makes of its row in its chunk with the marks of that chunk alone; that
`Reset` empties the marks is what this rests on.

That such a row reads back is arithmetic. `ColumnReadsBack`: the letters of a
column name, read as `XLSXCellPos` does, give the column, for any number of
letters. `DateReadsBack`: a serial is off its ticks by less than the tolerance,
whole days not at all, and a time that rounds up to a day reads as 0.
`MaskIsValidity`: after a cast into a reset vector a row is valid exactly when
its value is not NULL, for flat, constant and dictionary vectors.
`CellReadsBack` and `SinkRowHolds` put this together for a row.

### The swap

`SwapProofs`, for any number of COPYs and scans of one file, any jobs, first
workbook and number of tries (`SwapAssumption`), with any failures and crashes:

- However COPYs overlap: `SwapTypeCorrect`; `SwapCorrect` (`SwapInv`);
  `TornOnlyFresh`: an incomplete file under the workbook's name is the work of
  an unfinished COPY that writes a fresh workbook, or of an appender that has
  moved its file and not yet closed it; before the move, append and replace
  never show one, whatever fails; `KeepCorrect` (`KeepInv`) and `PublishedIsKept`
  (`KeptOrReady`): no published sheet is lost outside the swap, as long as no
  COPY has written the file afresh.
- One after the other (`~Overlap`): `SerialBooksAreConsistent`
  (`WholeIsConsistent`), `BoundSheetIsAlwaysRead` and `SwapImplementsDirectory`,
  the refinement.

The three need `~Overlap`. Of overlapping COPYs the second undoes the first,
which is no step of `SheetDirectory` and loses the sheet a scan was bound to.
That a complete workbook lists only sheets it has survives two overlapping
appends or replaces, which `swap_overlap` checks, but not three COPYs: TLC finds
a behaviour of 16 states in which the first has removed the workbook, the second
finds none and writes a fresh one, and the third, which has read the list of the
old workbook, copies the parts of the new one.

**The argument.** A file that is incomplete could come under the workbook's name
by a move, or by a writer that still writes a file it shares with the workbook.
`SwapInv` says when. `TempIsPrivate`: from the copied entries to the move no
other name and no other statement has the appender's file. `TriesCounted`: the
failed tries stay below the limit, and whoever has moved has a file.
`OutOnceOpen`: a statement has no file before it opens one, so that a new inode
belongs to nobody else. `TornIsFresh` is `TornOnlyFresh` with the places such a
writer can be at. `InodesInSequence` is what the provers need about `Append` and
in-place writes. `KeepInv` adds that no two statements write one file
(`OutIsOwn`) and that what was published last is in place until a swap removes it
(`LatestInPlace`). `SerialInv` is about the only statement there is: what it
has read of the workbook is what was published last (`CurrentIsLatest`), what
it has written is its job's work on that (`WorkOfWriter`), an unfinished
temporary file is nobody's workbook (`TempIsNoBook`), and scans follow
(`ScansFollow`).

### Styles

`StylesProofs`, for stylesheets of any size and any number of appends and edits:
`StylesCorrect` (`CellsKeepTypes`), `PatchedOnce` (`Settled`) and
`StylesKeepPlace` (`OldStylesStay`).

`SoundAssumption` says which stylesheets of others are meant: ids are given once,
every style refers to a format that is there, and none of the five codes the
extension needs stands under an id below 164. The reader ignores what a
stylesheet says of such ids and the appender does not, so that a style for
`hh:mm:ss` under id 14 would be used for times and read as dates. Formats that
other programs add later have ids of their own from 164 on, as the format
reserves the others.

**The argument.** `StylesInv` adds to the property that every cell's index
refers to a style that is there, and that once the extension has written to
the workbook there is a style of the first format for each of the five codes,
the one `ResolveStyles` finds. `CellStyles` and `ResolveStyles` are recursive
functions; `RecursionExists` shows that they are what their equations say.
Of a sound stylesheet the reader keeps a type for every style, at its position
(`StylesAreTypes`), which is where reader and appender could part. `Resolved`
follows the accumulator of `ResolveStyles` from code to code (`FormatStep`,
`ResolveStep`). New formats and styles go behind the old ones and are sound, and
a type is the same in a stylesheet that goes on (`TypeStays`).

### The calendar

The end of `OperatorProofs`, for every day from 2.1.0001 to `MAX_DAYS` and every
serial number that falls on one:

- `DaysAreDates`, `DatesAreDays`: `DaysToDate` and `DateToDays` are inverse to
  each other, and what the first returns is a date.
- `SerialsAreDates`: the date of a serial, whole or with a fraction, before the
  null date or after, is the date `CivilCalendar` counts, in years from March.
- `WeeksAreIso`, `SerialWeeksAreIso`: `GetWeekOfYear` is the week of ISO 8601,
  the one its Thursday has in the Thursday's own year. `WeekIsIso` is this of the
  serials of the run.

The serials of the run lie within some years; these lie within ten thousand.

**The argument.** A year starts where the one before it ends (`YearGrows`), so
that no day is in two (`OneYear`), and the number of days before a year is known
to a day in four hundred years (`YearBounds`), which keeps the search of
`DaysToDate` within the years the model lets it reach (`YearFound`). The loops
over the months are a recursive function, whose value is a table
(`MonthStarts`). The week is a matter of three numbers (`Placed`, `InWeekRow`): the
weekday *f* a year starts on, the row *k* of its sheet of weeks a day is in, and
the length of the year. The Thursday of row *k* is day 7*k* + 4 - *f*: in the year
itself, behind its end or before its start (`PlacedIso`). The code counts rows
(`PlacedWeek`) and corrects the first row and the fifty-third; `WeeksAreIso`
goes through the five cases, the next Sunday of row 52 being in this year or
the next.

### Lemmas shared by the proofs

The library's induction theorems take a predicate as a parameter, which the
provers cannot instantiate. `OperatorProofs` states them of sets, from the one
fact that strict inclusion is well founded on finite sets: least and greatest
elements, induction over a finite set and over the natural numbers, the image of
a finite set, and the existence of functions defined by recursion up to a bound.

### Only model-checked

- Liveness: `ScanEnds`, `CopyEnds`, `CopySucceeds`. The prover has no rule for fairness and ENABLED.
- The properties of TEXT: `FractionOutput` has RECURSIVE operators, which takes
  it and all modules that extend it out of the prover's reach. Its calendar has
  none.
- What the properties of two components say together (the range sniffed is the
  range scanned, the sheet written is the sheet read) is argued in section 2,
  not proved; `ScanCanAlwaysStart` is the interface of the first pair.

## 5. What is not modelled

- Checksums: an entry that a parser leaves early is closed with a CRC error
  that `CloseEntry` forgives, unless the parser stops exactly at its end
  (`zip_file.cpp:379`). Offsets of the stream and compression.
- Cell references so long that letters or digits wrap at 2^64
  (`xlsx_parts.hpp:48`), and the parsing of range options.
- The content of XML text (whitespace, encoding, malformed documents; a
  self-closing `<numFmts/>`, beside which the appender puts a second block,
  `xlsx_appender.hpp:474`), the progress bar, error wording, and option values
  that are only validated.
- Cells of the scan that name a shared string the table does not have; the code
  does not check the id.
- Rows or cells out of order in a worksheet, and two cells of one name: the
  format forbids both.
- The error of serials as doubles, and the clamp at the ends of int64.
- In the formatter: currency, locales other than en-US (the extension sets no
  other), bracketed calendars and native numerals, comments in a code, a code
  whose last character is E (the scanner reads the character behind it), numbers
  that doubles cannot hold, and whole parts above 2^32 with a fraction. Its
  scanner of typed numbers (`ImpSvNumberInputScan`) is never reached from
  `text`.
- The framework's temporary file and other code of DuckDB, expat and minizip,
  except for the facts named above.

## 6. Plan

1. *Done:* scan, sniffing, shared strings, package, COPY, its sink and serials,
   swap, styles, TEXT; the safety properties and refinements of all of them but
   TEXT proved, and of TEXT the calendar.
2. Theorems to come: the rest of TEXT, its clock first (`RoundedTime`, `ClockOf`),
   then the digits; the search for fractions as a recursive function.
3. Modules to come:
   - `ZipEntries`: the reader's protocol, early exit and CRC.
   - `CellReferences` at a small width against a reference definition.
   - A composition of `SheetSniff` and `SheetScan` over one worksheet.
   - `SheetDirectory` with the statement that makes each change; so far only
     `LastWriteReads` ties a change to the sheet the statement named.
