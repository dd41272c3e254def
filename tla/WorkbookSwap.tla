---------------------------- MODULE WorkbookSwap ----------------------------
(***************************************************************************)
(* COPY in the middle: what is on the disk between the calls that read the *)
(* old workbook, write the new one beside it and put it in place, when the *)
(* file system refuses a call, the input fails, the process dies or other  *)
(* statements use the file at the same time.  This is the path without the *)
(* framework's temporary file (USE_TMP_FILE false), where the appender     *)
(* swaps the files itself.                                                 *)
(*                                                                         *)
(* A workbook is reduced to its sheet names, in order, and to the contents *)
(* of the parts 1, 2, ...; the i-th sheet is in part i, which is how the   *)
(* extension numbers the parts of workbooks it made.                       *)
(***************************************************************************)
EXTENDS Integers, Sequences

CONSTANTS
    Writers,       (* COPY statements, one run each                          *)
    Jobs,          (* what they may be asked to do: MODE and sheet name      *)
    Readers,       (* scans of the same file                                 *)
    Base,          (* names of the sheets that are there at first            *)
    MaxAttempts,   (* RetryFsOp: MAX_ATTEMPTS                                *)
    OpsFail,       (* whether RemoveFile and MoveFile may fail               *)
    InputFails,    (* whether a row, or the source of the rows, may fail     *)
    MayCrash,      (* whether the process may die                            *)
    Overlap        (* whether two COPYs may run at the same time             *)

ASSUME SwapAssumption ==
    /\ \A job \in Jobs : job.mode \in {"create", "append", "replace"}
    /\ Base \in Seq({Base[i] : i \in DOMAIN Base})
    /\ MaxAttempts \in Nat \ {0}
    /\ {OpsFail, InputFails, MayCrash, Overlap} \subseteq BOOLEAN
    /\ {"dest", "several", "base"} \cap Writers = {}

VARIABLES
    job,        (* bind_data: the mode and the sheet of each COPY            *)
    path,       (* what each name refers to: an inode, or Absent             *)
    inode,      (* the workbooks on the disk                                 *)
    pc,         (* where each COPY is                                        *)
    source,     (* the sheet names an appender read in phase 1               *)
    out,        (* the inode each COPY writes                                *)
    attempts,   (* failed tries of the call it is at                         *)
    scan,       (* each scan: what it bound to and what it found             *)
    published   (* every workbook that has been put in place, in order       *)

vars == <<job, path, inode, pc, source, out, attempts, scan, published>>

Names == {Base[i] : i \in DOMAIN Base} \cup {j.name : j \in Jobs}
Absent == 0
Paths  == {"dest"} \cup Writers        (* a writer stands for its temporary file *)

Datum(name, by) == [name |-> name, by |-> by]
(* A file is whole once its central directory is written; "by" is the COPY   *)
(* that has it open, or several when it was truncated under an open writer.  *)
Incomplete(w) == [whole |-> FALSE, by |-> w, sheets |-> << >>, parts |-> << >>]
FirstBook == [whole |-> TRUE, by |-> "base", sheets |-> Base,
              parts |-> [i \in DOMAIN Base |-> Datum(Base[i], "base")]]

Exists(p) == path[p] # Absent
At(p)     == inode[path[p]]
IsWhole(p) == Exists(p) /\ At(p).whole

Running(w)  == pc[w] \notin {"done", "failed", "crashed"}
PositionOf(names, name) == CHOOSE i \in DOMAIN names : names[i] = name
Holds(names, name) == \E i \in DOMAIN names : names[i] = name

Init ==
    /\ job \in [Writers -> Jobs]
    /\ path = [p \in Paths |-> IF p = "dest" /\ Base # << >> THEN 1 ELSE Absent]
    /\ inode = <<FirstBook>>
    /\ pc = [w \in Writers |-> "start"]
    /\ source = [w \in Writers |-> << >>]
    /\ out = [w \in Writers |-> Absent]
    /\ attempts = [w \in Writers |-> 0]
    /\ scan = [r \in Readers |-> [state |-> "unbound", part |-> 0, name |-> "none"]]
    /\ published = IF Base # << >> THEN <<FirstBook>> ELSE << >>

Goto(w, label) == pc' = [pc EXCEPT ![w] = label]

-----------------------------------------------------------------------------
(* GlobalWriteXLSXData: does the target exist?  A writer of a fresh workbook *)
(* opens the path itself; the open truncates a file that is there.           *)

MayStart(w) ==
    /\ pc[w] = "start"
    /\ Overlap \/ \A v \in Writers : Running(v) => pc[v] = "start"

UsesAppender(w) == job[w].mode \in {"append", "replace"} /\ Exists("dest")

OpenFresh(w) ==
    /\ MayStart(w)
    /\ ~UsesAppender(w)
    /\ IF Exists("dest")
       THEN /\ inode' = [inode EXCEPT ![path["dest"]] = Incomplete(w)]
            /\ out' = [out EXCEPT ![w] = path["dest"]]
            /\ UNCHANGED path
       ELSE /\ inode' = Append(inode, Incomplete(w))
            /\ out' = [out EXCEPT ![w] = Len(inode) + 1]
            /\ path' = [path EXCEPT !["dest"] = Len(inode) + 1]
    /\ Goto(w, "fresh")
    /\ UNCHANGED <<job, source, attempts, scan, published>>

OpenAppender(w) ==
    /\ MayStart(w)
    /\ UsesAppender(w)
    /\ Goto(w, "read_metadata")
    /\ UNCHANGED <<job, path, inode, source, out, attempts, scan, published>>

-----------------------------------------------------------------------------
(* XLSXAppender, phases 1 and 2: read the metadata and close the file.       *)

AcceptsAnyAppend(w, names) == Holds(names, job[w].name) \/ job[w].mode = "append"
Accepts(w, names) == Holds(names, job[w].name) <=> job[w].mode = "replace"

ReadMetadata(w) ==
    /\ pc[w] = "read_metadata"
    /\ IsWhole("dest") /\ Accepts(w, At("dest").sheets)
    /\ source' = [source EXCEPT ![w] = At("dest").sheets]
    /\ Goto(w, "copy_entries")
    /\ UNCHANGED <<job, path, inode, out, attempts, scan, published>>

RefuseSource(w) ==
    /\ pc[w] = "read_metadata"
    /\ ~(IsWhole("dest") /\ Accepts(w, At("dest").sheets))
    /\ Goto(w, "failed")
    /\ UNCHANGED <<job, path, inode, source, out, attempts, scan, published>>

(* Phase 3: open the temporary file, open the workbook a second time and     *)
(* copy its entries but the ones to be rewritten.                            *)
OwnPartFromZero(w) ==
    IF job[w].mode = "replace" THEN PositionOf(source[w], job[w].name) - 1 ELSE Len(source[w])
OwnPart(w) ==
    IF job[w].mode = "replace" THEN PositionOf(source[w], job[w].name) ELSE Len(source[w]) + 1

CopyEntriesInPlace(w) ==
    /\ pc[w] = "copy_entries"
    /\ IsWhole("dest")
    /\ inode' = [inode EXCEPT ![path["dest"]] = [@ EXCEPT !.whole = FALSE]]
    /\ out' = [out EXCEPT ![w] = path["dest"]]
    /\ Goto(w, "write_rows")
    /\ UNCHANGED <<job, path, source, attempts, scan, published>>
CopyEntries(w) ==
    /\ pc[w] = "copy_entries"
    /\ IF IsWhole("dest")
       THEN /\ LET rewritten == IF job[w].mode = "replace" THEN {OwnPart(w)} ELSE {}
                   old == At("dest")
               IN  inode' = Append(inode,
                     [whole |-> FALSE, by |-> w, sheets |-> old.sheets,
                      parts |-> [i \in DOMAIN old.parts \ rewritten |-> old.parts[i]]])
            /\ Goto(w, "write_rows")
       ELSE /\ inode' = Append(inode, Incomplete(w))
            /\ Goto(w, "failed")
    /\ out' = [out EXCEPT ![w] = Len(inode) + 1]
    /\ path' = [path EXCEPT ![w] = Len(inode) + 1]
    /\ UNCHANGED <<job, source, attempts, scan, published>>

-----------------------------------------------------------------------------
(* Sink and Finalize.  An exception on the way destroys the writer and       *)
(* leaves its file where it is.                                              *)

InputThrows(w) ==
    /\ InputFails
    /\ pc[w] \in {"fresh", "write_rows"}
    /\ Goto(w, "failed")
    /\ UNCHANGED <<job, path, inode, source, out, attempts, scan, published>>

(* ZipFileWriter::Finalize tests mz_zip_writer_is_open for truth, and it     *)
(* returns MZ_OK, which is 0, for a writer that is open: nothing is closed.  *)
FinishFresh(w) ==
    /\ pc[w] = "fresh"
    /\ inode' = [inode EXCEPT ![out[w]] =
         IF inode[out[w]].by = w
         THEN [whole |-> FALSE, by |-> w, sheets |-> <<job[w].name>>, parts |-> <<Datum(job[w].name, w)>>]
         ELSE Incomplete("several")]
    /\ Goto(w, "finished")
    /\ UNCHANGED <<job, path, source, out, attempts, scan, published>>

(* EndSheet, EmitMetadata, Finalize: append writes the sheet list it read in *)
(* phase 1 and its own sheet, replace keeps the list it copied in phase 3.   *)
NewerSheets(w, copied) ==
    IF job[w].mode = "replace" THEN copied ELSE Append(copied, job[w].name)
NewSheets(w, copied) ==
    IF job[w].mode = "replace" THEN copied ELSE Append(source[w], job[w].name)

FinishZip(w) ==
    /\ pc[w] = "write_rows"
    /\ LET copied == inode[out[w]]
       IN  inode' = [inode EXCEPT ![out[w]] =
             [whole |-> FALSE, by |-> w, sheets |-> NewSheets(w, copied.sheets),
              parts |-> [i \in DOMAIN copied.parts \cup {OwnPart(w)} |->
                           IF i = OwnPart(w) THEN Datum(job[w].name, w) ELSE copied.parts[i]]]]
    /\ Goto(w, "remove")
    /\ UNCHANGED <<job, path, source, out, attempts, scan, published>>

-----------------------------------------------------------------------------
(* XLSXAppender::Finish: swap the files, trying each call MaxAttempts times. *)
(* The file that is moved has no central directory yet.                      *)

RemoveDest(w) ==
    /\ pc[w] = "remove"
    /\ path' = [path EXCEPT !["dest"] = Absent]
    /\ attempts' = [attempts EXCEPT ![w] = 0]
    /\ Goto(w, "move")
    /\ UNCHANGED <<job, inode, source, out, scan, published>>

MoveTmp(w) ==
    /\ pc[w] = "move"
    /\ path' = [path EXCEPT !["dest"] = out[w], ![w] = Absent]
    /\ Goto(w, "finished")
    /\ UNCHANGED <<job, inode, source, out, attempts, scan, published>>

(* The end of the statement destroys the writer; only now mz_zip_writer_     *)
(* delete writes the central directory, through the handle that is open.     *)
DestroyWriter(w) ==
    /\ pc[w] = "finished"
    /\ LET book == [whole |-> TRUE, by |-> w, sheets |-> inode[out[w]].sheets, parts |-> inode[out[w]].parts]
           mine == inode[out[w]].by = w
       IN  /\ inode' = [inode EXCEPT ![out[w]] = IF mine THEN book ELSE Incomplete("several")]
           /\ published' = IF mine /\ path["dest"] = out[w] THEN Append(published, book) ELSE published
    /\ Goto(w, "done")
    /\ UNCHANGED <<job, path, source, out, attempts, scan>>

RetryFsOpOnceMore(w) ==
    /\ OpsFail
    /\ pc[w] \in {"remove", "move"}
    /\ attempts' = [attempts EXCEPT ![w] = @ + 1]
    /\ Goto(w, IF attempts[w] < MaxAttempts THEN pc[w] ELSE "give_up")
    /\ UNCHANGED <<job, path, inode, source, out, scan, published>>
RetryFsOpForEver(w) ==
    /\ OpsFail
    /\ pc[w] \in {"remove", "move"}
    /\ attempts' = [attempts EXCEPT ![w] = 1 - @]
    /\ UNCHANGED <<job, path, inode, pc, source, out, scan, published>>
RetryFsOp(w) ==
    /\ OpsFail
    /\ pc[w] \in {"remove", "move"}
    /\ attempts' = [attempts EXCEPT ![w] = @ + 1]
    /\ Goto(w, IF attempts[w] + 1 < MaxAttempts THEN pc[w] ELSE "give_up")
    /\ UNCHANGED <<job, path, inode, source, out, scan, published>>

(* The catch block: remove the temporary file if that works, and rethrow.    *)
GiveUp(w) ==
    /\ pc[w] = "give_up"
    /\ \/ path' = [path EXCEPT ![w] = Absent]
       \/ UNCHANGED path
    /\ Goto(w, "failed")
    /\ UNCHANGED <<job, inode, source, out, attempts, scan, published>>

Crash ==
    /\ MayCrash
    /\ \E w \in Writers : Running(w) /\ pc[w] # "start"
    /\ pc' = [w \in Writers |-> IF Running(w) THEN "crashed" ELSE pc[w]]
    /\ scan' = [r \in Readers |-> [scan[r] EXCEPT !.state = "over"]]
    /\ UNCHANGED <<job, path, inode, source, out, attempts, published>>

-----------------------------------------------------------------------------
(* read_xlsx: Bind looks the sheet up and closes the file, InitGlobal opens  *)
(* the file again, perhaps much later when the statement is a prepared one.  *)

Bind(r) ==
    /\ scan[r].state = "unbound"
    /\ IsWhole("dest")
    /\ \E i \in DOMAIN At("dest").sheets :
         scan' = [scan EXCEPT ![r] = [state |-> "bound", part |-> i, name |-> At("dest").sheets[i]]]
    /\ UNCHANGED <<job, path, inode, pc, source, out, attempts, published>>

InitGlobal(r) ==
    /\ scan[r].state = "bound"
    /\ scan' = [scan EXCEPT ![r].state =
         IF ~IsWhole("dest") THEN "cannot_open"
         ELSE IF scan[r].part \notin DOMAIN At("dest").parts THEN "no_such_sheet"
         ELSE IF At("dest").parts[scan[r].part].name = scan[r].name THEN "read" ELSE "read_other"]
    /\ UNCHANGED <<job, path, inode, pc, source, out, attempts, published>>

-----------------------------------------------------------------------------
Step(w) ==
    \/ OpenFresh(w) \/ OpenAppender(w)
    \/ ReadMetadata(w) \/ RefuseSource(w) \/ CopyEntries(w)
    \/ InputThrows(w) \/ FinishFresh(w) \/ FinishZip(w)
    \/ RemoveDest(w) \/ MoveTmp(w) \/ RetryFsOp(w) \/ GiveUp(w) \/ DestroyWriter(w)

Next ==
    \/ \E w \in Writers : Step(w)
    \/ \E r \in Readers : Bind(r) \/ InitGlobal(r)
    \/ Crash

Spec == Init /\ [][Next]_vars

(* A statement that has begun runs on: nothing in it waits for anything.     *)
FairSpec == Spec /\ \A w \in Writers : WF_vars(pc[w] # "start" /\ Step(w))
=============================================================================
