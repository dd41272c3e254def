------------------------------ MODULE CopySink ------------------------------
(***************************************************************************)
(* One COPY ... TO from its options to the destruction of its writer:      *)
(* ParseCopyToOptions, InitGlobal, Sink for every chunk, Finalize, the     *)
(* rows and cells XLXSWriter makes of the chunks, and the zip entries they *)
(* go to (ZipFileWriter).  Any call that writes may fail.                  *)
(*                                                                         *)
(* What the framework does with the file afterwards, and the exchange of   *)
(* files at the end of XLSXAppender::Finish, is WorkbookSwap's.            *)
(***************************************************************************)
EXTENDS SerialDates, Ascending, SequencesExt

CONSTANTS
    Options,      (* what the statement may say: mode, header, limit, and    *)
                  (* whether the old styles.xml needs a patch                *)
    TypeLists,    (* column types of the query, and                          *)
    Chunks(_),    (* the chunks it may deliver for them                      *)
    VectorSize,   (* STANDARD_VECTOR_SIZE: the most rows of a chunk          *)
    MaxChunks,    (* bound: chunks in a row                                  *)
    OldEntries,   (* entry names of the workbook that is extended            *)
    Letters,      (* 26                                                      *)
    IdxWidth,     (* idx_t has this many bits                                *)
    MaxCellRows,  (* XLSX_MAX_CELL_ROWS                                      *)
    MayFail,      (* whether writing may fail                                *)
    Default, Bad, (* an option that is not given, and one that is refused    *)
    Null

ASSUME SinkAssumption ==
    /\ \A o \in Options : /\ o.mode \in {Default, Bad, "create", "append", "replace"}
                          /\ o.header \in {Default, Bad, TRUE, FALSE}
                          /\ o.limit \in {Default, Bad} \/ o.limit \in Int
                          /\ o.patch \in BOOLEAN
    /\ VectorSize \in Nat /\ MaxChunks \in Nat
    /\ Letters \in Nat \ {0} /\ MaxCellRows \in Nat
    /\ MayFail \in BOOLEAN
    /\ Null \notin Int

(* A limit is an INTEGER and an idx_t is wider: what a negative limit turns  *)
(* into is more rows than anyone delivers.                                   *)
ASSUME WidthAssumption ==
    /\ IdxWidth \in Nat /\ 2 ^ IdxWidth \in Nat
    /\ \A o \in Options : o.limit \in Int =>
          /\ o.limit < 2 ^ IdxWidth
          /\ o.limit < 0 => 1 + MaxChunks * VectorSize <= o.limit + 2 ^ IdxWidth

VARIABLES
    options,   (* of the statement                                           *)
    types,     (* data.column_types                                          *)
    taken,     (* the chunks Sink was given                                  *)
    nulls,     (* cast_chunk: for every column the rows its mask says are    *)
               (* NULL                                                       *)
    sheet,     (* the rows written, each [r, cells]                          *)
    entries,   (* the zip's entries, each [name, whole]                      *)
    open,      (* the open entry; NoEntry: is_entry_open is false            *)
    directory, (* whether the central directory is written                   *)
    todo,      (* entries that are still to be copied or written             *)
    pc,
    error      (* what was thrown                                            *)

zip  == <<entries, open>>
vars == <<options, types, taken, nulls, sheet, entries, open, directory, todo, pc, error>>

NoEntry == "none"

-----------------------------------------------------------------------------
(* ParseCopyToOptions.  A limit is cast to INTEGER and kept in an idx_t.     *)

Refused(o)   == Bad \in {o.mode, o.header, o.limit}
IsAppend(o)  == o.mode = "append"
IsReplace(o) == o.mode = "replace"
Header(o)    == IF o.header = Default THEN FALSE ELSE o.header
RowLimit(o)  == IF o.limit = Default THEN MaxCellRows ELSE o.limit % 2 ^ IdxWidth

-----------------------------------------------------------------------------
(* The parts, in the order they are written.  The zip's directory entries    *)
(* are left out: AddDirectory ignores its result, and nothing reads them.    *)

Package     == {"content_types", "workbook", "workbook_rels"}
OwnSheet(o) == IF IsAppend(o) THEN "sheet2" ELSE "sheet1"

(* XLXSWriter::Finish and XLSXAppender::EmitMetadata.                        *)
Metadata(o) ==
    IF ~(IsAppend(o) \/ IsReplace(o))
    THEN <<"content_types", "package_rels", "workbook", "workbook_rels", "styles",
           "shared_strings", "app", "core">>
    ELSE (IF IsAppend(o) THEN <<"content_types", "workbook", "workbook_rels">> ELSE << >>)
           \o (IF o.patch THEN <<"styles">> ELSE << >>)

(* The appender's rewrite_set, and the entries it copies: the last one of    *)
(* every name.                                                               *)
ASSUME OldEntriesAssumption ==      (* the new sheet has a name of its own   *)
    /\ OldEntries \in Seq(STRING)
    /\ Package \subseteq Range(OldEntries) /\ "sheet2" \notin Range(OldEntries)

RewriteSetOfReplace(o) == {OwnSheet(o)} \cup (IF o.patch THEN {"styles"} ELSE {})
RewriteSet(o) == (IF IsAppend(o) THEN Package ELSE {OwnSheet(o)})
                   \cup (IF o.patch THEN {"styles"} ELSE {})
Copied(o) ==
    LET last(i) == \A j \in i + 1 .. Len(OldEntries) : OldEntries[j] # OldEntries[i]
        keep == {i \in DOMAIN OldEntries :
                    last(i) /\ OldEntries[i] \notin RewriteSet(o)}
        order == Ascending(keep)
    IN  [k \in DOMAIN order |-> OldEntries[order[k]]]

-----------------------------------------------------------------------------
(* The chunk.  A vector has a form, values, which of them are valid, and a   *)
(* selection that says for every row which value it has.                     *)

ValueAt(vec, i) == IF vec.valid[vec.sel[i]] THEN vec.data[vec.sel[i]] ELSE Null
Rows(chunk) == Len(chunk[1].sel)

(* What DuckDB delivers for a column of a type: times are of one day.        *)
IsVector(type, vec, n) ==
    /\ vec.data \in Seq(Int) /\ vec.valid \in Seq(BOOLEAN) /\ Len(vec.valid) = Len(vec.data)
    /\ vec.sel \in Seq(DOMAIN vec.data) /\ Len(vec.sel) = n
    /\ vec.form = "constant" => Len(vec.data) = 1
    /\ type \in Times => vec.data \in Seq(0 .. TicksPerDay)
ASSUME ChunksAssumption ==
    \A ts \in TypeLists :
       /\ ts \in Seq(STRING) /\ ts # << >>
       /\ \A chunk \in Chunks(ts) :
             /\ DOMAIN chunk = DOMAIN ts /\ Rows(chunk) <= VectorSize
             /\ \A c \in DOMAIN ts : IsVector(ts[c], chunk[c], Rows(chunk))

(* cast_chunk.Reset()                                                        *)
NoReset(marks) == marks
Reset(marks) == [c \in DOMAIN marks |-> {}]

(* ExpressionExecutor::Execute into cast_chunk.  A VARCHAR column is taken   *)
(* as it is; the cast of another column leaves the mask alone where nothing  *)
(* is NULL, replaces it for a flat vector and adds to it for one with a      *)
(* selection.                                                                *)
Execute(type, vec, marks) ==
    LET rows == {i \in DOMAIN vec.sel : ~vec.valid[vec.sel[i]]}
    IN  IF type = "VARCHAR" THEN marks
        ELSE CASE vec.form = "constant" -> IF vec.valid[1] THEN marks \ {1} ELSE marks \cup {1}
               [] vec.form = "flat"     -> IF \A i \in DOMAIN vec.valid : vec.valid[i]
                                           THEN marks ELSE rows
               [] OTHER                 -> marks \cup rows

(* ToUnifiedFormat: where row i of the cast column is, and whether it is     *)
(* valid there.                                                              *)
IsValid(type, vec, marks, i) ==
    IF type = "VARCHAR" THEN vec.valid[vec.sel[i]]
    ELSE IF vec.form = "constant" THEN 1 \notin marks ELSE i \notin marks

-----------------------------------------------------------------------------
(* BeginSheet's sheet_column_names, and the cells of a type.                 *)

ColumnName[n \in Nat] ==
    IF n = 0 THEN << >> ELSE Append(ColumnName[(n - 1) \div Letters], (n - 1) % Letters)

Numbers == {"TINYINT", "SMALLINT", "INTEGER", "BIGINT", "HUGEINT", "FLOAT", "DOUBLE", "DECIMAL",
            "UTINYINT", "USMALLINT", "UINTEGER", "UBIGINT", "UHUGEINT"}
CellType(type) ==
    CASE type = "BOOLEAN" -> "b"
      [] type \in {"DATE"} \cup Times \cup Timestamps \cup Numbers -> ""
      [] OTHER            -> "inlineStr"

(* The default style indices and the cellXfs of the writer's styles.xml.     *)
StyleIndex(type) ==
    CASE type = "DATE"                            -> 1
      [] type = "TIMESTAMP_SEC"                   -> 2
      [] type \in Times                           -> 3
      [] type \in Timestamps \ {"TIMESTAMP_SEC"}  -> 4
      [] type = "BOOLEAN"                         -> 5
      [] OTHER                                    -> 0
CellXfs == <<"DATE", "TIMESTAMP", "TIME", "TIMESTAMP", "NUMBER">>

Cell(type, c, row_str, value) ==
    [column |-> ColumnName[c], row |-> row_str, t |-> CellType(type), s |-> StyleIndex(type),
     v |-> ToSerial(type, value)]

(* One row of Sink: WriteEmptyCell writes nothing and takes the next column. *)
SinkRow(chunk, marks, i, row_str) ==
    LET filled == {c \in DOMAIN chunk : IsValid(types[c], chunk[c], marks[c], i)}
        order  == Ascending(filled)
    IN  [r |-> row_str,
         cells |-> [k \in DOMAIN order |->
            LET c == order[k] IN Cell(types[c], c, row_str, chunk[c].data[chunk[c].sel[i]])]]
(* Strings are numbers here, and those of the column names negative.         *)
Title(c) == -c
HeaderRow == [r |-> 1, cells |-> [c \in DOMAIN types |-> Cell("VARCHAR", c, 1, Title(c))]]

(* EndRow throws when, the row written, there are more rows than the limit.  *)
FitsLess(n) == n < RowLimit(options)
Fits(n) == n <= RowLimit(options)

-----------------------------------------------------------------------------
Init ==
    /\ options \in Options
    /\ types \in TypeLists
    /\ taken = << >>
    /\ nulls = [c \in DOMAIN types |-> {}]
    /\ sheet = << >>
    /\ entries = << >>
    /\ open = NoEntry
    /\ directory = FALSE
    /\ todo = << >>
    /\ pc = "bind"
    /\ error = "none"

Throw(what) == pc' = "failed" /\ error' = what
Go(label)   == pc' = label /\ UNCHANGED error

(* Bind, and the constructor of the writer or, where there is a workbook to  *)
(* extend, of the appender.                                                  *)
Bind ==
    /\ pc = "bind"
    /\ IF Refused(options)
       THEN pc' = "refused" /\ error' = "option" /\ UNCHANGED todo
       ELSE /\ Go("copy")
            /\ todo' = IF IsAppend(options) \/ IsReplace(options)
                       THEN Copied(options) ELSE << >>
    /\ UNCHANGED <<options, types, taken, nulls, sheet, zip, directory>>

(* CopyCurrentEntryFrom                                                      *)
CopyEntry ==
    /\ pc = "copy" /\ todo # << >>
    /\ IF open # NoEntry THEN Throw("misuse") /\ UNCHANGED <<entries, todo>>
       ELSE /\ entries' = Append(entries, [name |-> Head(todo), whole |-> TRUE])
            /\ todo' = Tail(todo)
            /\ UNCHANGED <<pc, error>>
    /\ UNCHANGED <<options, types, taken, nulls, sheet, open, directory>>

(* ZipFileWriter::BeginFile and EndFile.                                     *)
BeginFile(name, label) ==
    IF open # NoEntry THEN Throw("misuse") /\ UNCHANGED zip
    ELSE /\ entries' = Append(entries, [name |-> name, whole |-> FALSE])
         /\ open' = name
         /\ Go(label)
EndFileStaysOpen(label) ==
    IF open = NoEntry THEN Throw("misuse") /\ UNCHANGED zip
    ELSE /\ entries' = [entries EXCEPT ![Len(entries)].whole = TRUE]
         /\ UNCHANGED open
         /\ Go(label)
EndFile(label) ==
    IF open = NoEntry THEN Throw("misuse") /\ UNCHANGED zip
    ELSE /\ entries' = [entries EXCEPT ![Len(entries)].whole = TRUE]
         /\ open' = NoEntry
         /\ Go(label)

(* InitGlobal: BeginSheet and, if it is asked for, the row of names.         *)
BeginSheet ==
    /\ pc = "copy" /\ todo = << >>
    /\ BeginFile(OwnSheet(options), "header")
    /\ UNCHANGED <<options, types, taken, nulls, sheet, directory, todo>>
WriteHeader ==
    /\ pc = "header"
    /\ IF ~Header(options) THEN Go("sink") /\ UNCHANGED sheet
       ELSE /\ sheet' = <<HeaderRow>>
            /\ IF Fits(1) THEN Go("sink") ELSE Throw("limit")
    /\ UNCHANGED <<options, types, taken, nulls, zip, directory, todo>>

(* Sink: a chunk, up to the row that is one too many.                        *)
Sink(chunk) ==
    /\ pc = "sink" /\ Len(taken) < MaxChunks
    /\ taken' = Append(taken, chunk)
    /\ nulls' = LET fresh == Reset(nulls)
                IN  [c \in DOMAIN types |-> Execute(types[c], chunk[c], fresh[c])]
    /\ LET before == Len(sheet)
           excess == {i \in 1 .. Rows(chunk) : ~Fits(before + i)}
           upto   == IF excess = {} THEN Rows(chunk) ELSE Min(excess)
       IN  /\ sheet' = sheet \o [i \in 1 .. upto |-> SinkRow(chunk, nulls', i, before + i)]
           /\ IF excess = {} THEN UNCHANGED <<pc, error>> ELSE Throw("limit")
    /\ UNCHANGED <<options, types, zip, directory, todo>>

(* Finalize: EndSheet, then the parts of Metadata one by one, each opened,   *)
(* written and closed.                                                       *)
EndSheet ==
    /\ pc = "sink"
    /\ EndFile("metadata")
    /\ todo' = Metadata(options)
    /\ UNCHANGED <<options, types, taken, nulls, sheet, directory>>
BeginPart ==
    /\ pc = "metadata" /\ todo # << >>
    /\ BeginFile(Head(todo), "part")
    /\ UNCHANGED <<options, types, taken, nulls, sheet, directory, todo>>
EndPart ==
    /\ pc = "part"
    /\ EndFile("metadata")
    /\ todo' = Tail(todo)
    /\ UNCHANGED <<options, types, taken, nulls, sheet, directory>>
Finish ==
    /\ pc = "metadata" /\ todo = << >>
    /\ Go("finished")
    /\ UNCHANGED <<options, types, taken, nulls, sheet, zip, directory, todo>>

(* Any write may fail, be it in the middle of an entry; an exception of the  *)
(* query that delivers the rows has the same effect.                         *)
WriteFails ==
    /\ MayFail
    /\ pc \in {"copy", "header", "sink", "metadata", "part"}
    /\ Throw("io")
    /\ \/ UNCHANGED entries
       \/ /\ pc = "copy" /\ todo # << >>
          /\ entries' = Append(entries, [name |-> Head(todo), whole |-> FALSE])
    /\ UNCHANGED <<options, types, taken, nulls, sheet, open, directory, todo>>

(* ~ZipFileWriter, after success and after an exception alike: minizip       *)
(* closes the open entry as it is and writes the central directory.  An      *)
(* exception of the file system in there ends the process.                   *)
DestroyWriter ==
    /\ pc \in {"finished", "failed"}
    /\ pc' = IF pc = "finished" THEN "done" ELSE "left"
    /\ open' = NoEntry
    /\ directory' = TRUE
    /\ UNCHANGED <<options, types, taken, nulls, sheet, entries, todo, error>>
DestroyWriterFails ==
    /\ MayFail
    /\ pc \in {"finished", "failed"}
    /\ pc' = "left"
    /\ error' = "io"
    /\ UNCHANGED <<options, types, taken, nulls, sheet, zip, directory, todo>>

Statement ==
    \/ Bind \/ CopyEntry \/ BeginSheet \/ WriteHeader
    \/ \E chunk \in Chunks(types) : Sink(chunk)
    \/ EndSheet \/ BeginPart \/ EndPart \/ Finish \/ DestroyWriter
Next == Statement \/ WriteFails \/ DestroyWriterFails

Spec == Init /\ [][Next]_vars

(* A statement that has begun is driven to its end by the pipeline.          *)
FairSpec == Spec /\ WF_vars(Statement)
=============================================================================
