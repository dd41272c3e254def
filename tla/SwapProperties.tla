--------------------------- MODULE SwapProperties ---------------------------
(* What must hold of the files at every moment of a COPY.                    *)
EXTENDS WorkbookSwap

(* TypeOK: every variable keeps its type; no name refers to a missing inode. *)
TypeOK ==
    /\ job \in [Writers -> Jobs]
    /\ path \in [Paths -> 0 .. Len(inode)]
    /\ \A i \in DOMAIN inode :
         /\ inode[i].whole \in BOOLEAN
         /\ inode[i].sheets \in Seq(Names)
    /\ out \in [Writers -> 0 .. Len(inode)]
    /\ source \in [Writers -> Seq(Names)]
    /\ attempts \in [Writers -> 0 .. MaxAttempts]
    /\ pc \in [Writers -> {"start", "fresh", "read_metadata", "copy_entries", "write_rows",
                           "remove", "move", "give_up", "finished", "done", "failed", "crashed"}]

(* Only an appender has read a source.                                       *)
WroteFresh(w) == out[w] # Absent /\ source[w] = << >>

-----------------------------------------------------------------------------
(* TornOnlyByFresh: an incomplete file under the workbook's name is the work *)
(* of a writer of a fresh workbook that has not finished, or of an appender  *)
(* whose temporary file has been moved and whose writer is not destroyed     *)
(* yet; append and replace show none before MoveFile, whatever fails.        *)
Unfinished(w) ==
    /\ out[w] = path["dest"]
    /\ pc[w] \notin {"done", "start"}
    /\ WroteFresh(w) \/ pc[w] \in {"finished", "crashed"}
TornOnlyByFresh ==
    Exists("dest") /\ ~At("dest").whole =>
        At("dest").by = "several" \/ \E w \in Writers : Unfinished(w)

(* WholeIsConsistent: in every complete workbook each sheet in the list has  *)
(* its own part, although list and parts are read at two different times.    *)
Consistent(book) ==
    \A i \in DOMAIN book.sheets : i \in DOMAIN book.parts /\ book.parts[i].name = book.sheets[i]
WholeIsConsistent == \A p \in Paths : IsWhole(p) => Consistent(At(p))

(* KeptOrReady: outside the window from RemoveFile to the destruction of the *)
(* writer there is always a complete workbook on the disk with every sheet   *)
(* of the one put in place last, so that a failure or a crash anywhere else  *)
(* loses no sheet that had been published.                                   *)
HasAll(book, names) == \A i \in DOMAIN names : Holds(book.sheets, names[i])
BookIsKept == \E p \in Paths : IsWhole(p) /\ HasAll(At(p), published[Len(published)].sheets)
InSwapWindow(w) ==
    /\ source[w] # << >>
    /\ pc[w] \in {"move", "give_up", "finished", "failed", "crashed"}
    /\ path["dest"] \in {Absent, out[w]}
KeptOrReady ==
    published = << >> \/ BookIsKept \/ \E w \in Writers : WroteFresh(w) \/ InSwapWindow(w)

(* BoundSheetIsRead: as long as nobody writes the file afresh, a scan reads  *)
(* the sheet it was bound to, even when other sheets came or were replaced   *)
(* between Bind and InitGlobal.                                              *)
BoundSheetIsRead ==
    \A r \in Readers :
        scan[r].state \in {"no_such_sheet", "read_other"} => \E w \in Writers : WroteFresh(w)

-----------------------------------------------------------------------------
(* An inductive invariant that implies TypeOK and TornOnlyByFresh, for any   *)
(* number of COPYs that overlap in any way.                                  *)
IsSequence(s) == s \in Seq({s[i] : i \in DOMAIN s})
InodesInSequence == IsSequence(inode)

(* A writer has a file from the moment it opens it.                          *)
OutOnceOpen ==
    \A w \in Writers :
        /\ pc[w] \in {"start", "read_metadata", "copy_entries"} => out[w] = Absent /\ attempts[w] = 0
        /\ pc[w] = "start" => source[w] = << >>
        /\ pc[w] = "fresh" => out[w] # Absent /\ source[w] = << >>

(* The temporary file of an appender is nobody else's until it is moved.     *)
TempIsPrivate ==
    \A w \in Writers : pc[w] \in {"write_rows", "remove", "move", "give_up"} =>
        /\ out[w] # Absent
        /\ \A p \in Paths \ {w} : path[p] # out[w]
        /\ \A v \in Writers \ {w} : out[v] # out[w]

(* Tries are counted.                                                        *)
TriesCounted ==
    \A w \in Writers :
        /\ pc[w] = "write_rows" => attempts[w] = 0
        /\ pc[w] \in {"remove", "move"} => attempts[w] < MaxAttempts
        /\ pc[w] = "finished" => out[w] # Absent

TornIsFresh ==
    Exists("dest") /\ ~At("dest").whole =>
        \/ At("dest").by = "several"
        \/ \E w \in Writers : /\ out[w] = path["dest"]
                              /\ \/ source[w] = << >> /\ pc[w] \in {"fresh", "failed"}
                                 \/ pc[w] \in {"finished", "crashed"}

(* SwapInv: what each step of a COPY relies on.                              *)
SwapInv == /\ TypeOK /\ InodesInSequence /\ OutOnceOpen
           /\ TempIsPrivate /\ TriesCounted /\ TornIsFresh

-----------------------------------------------------------------------------
(* What KeptOrReady rests on, for COPYs that overlap in any way.             *)
NoFresh == \A w \in Writers : ~WroteFresh(w)
Latest  == published[Len(published)]

(* As long as nobody writes the workbook afresh no two COPYs write one file. *)
OutIsOwn == NoFresh => \A w \in Writers : out[w] # Absent => inode[out[w]].by = w

(* The workbook is the one published last, or a COPY is between RemoveFile   *)
(* and the destruction of its writer.                                        *)
Swapping(w) ==
    /\ source[w] # << >>
    /\ \/ path["dest"] = Absent /\ pc[w] \in {"move", "give_up", "failed", "crashed"}
       \/ path["dest"] = out[w] /\ pc[w] \in {"finished", "crashed"}
LatestInPlace ==
    NoFresh => \/ published = << >> /\ ~Exists("dest")
               \/ published # << >> /\ IsWhole("dest") /\ At("dest").sheets = Latest.sheets
               \/ \E w \in Writers : Swapping(w)

KeepInv == SwapInv /\ IsSequence(published) /\ OutIsOwn /\ LatestInPlace

-----------------------------------------------------------------------------
(* What holds of COPYs that run one after the other.                         *)
Active(w) == Running(w) /\ pc[w] # "start"
OneAtATime == \A v, w \in Writers : Active(v) /\ Active(w) => v = w

(* A complete file under the workbook's name is the one published last.      *)
CurrentIsLatest ==
    /\ published # << >> => Latest.sheets # << >> /\ Latest.sheets \in Seq(Names) /\ Consistent(Latest)
    /\ IsWhole("dest") => published # << >> /\ At("dest") = Latest

(* A temporary file that was left behind, or is still written, is no         *)
(* workbook and never becomes one.                                           *)
TempIsNoBook ==
    \A w \in Writers : Exists(w) =>
        path[w] = out[w] /\ path[w] # path["dest"] /\ At(w).by = w /\ ~At(w).whole

(* An appender's new workbook comes from the one published last.             *)
ReadLatest(w) == published # << >> /\ source[w] = Latest.sheets /\ Accepts(w, source[w])
CopyOfLatest(w) ==
    LET new == inode[out[w]]
    IN  /\ new.sheets = source[w]
        /\ \A i \in DOMAIN source[w] :
             (job[w].mode = "replace" /\ i = OwnPart(w)) \/ (i \in DOMAIN new.parts /\ new.parts[i] = Latest.parts[i])
BookOfAppender(w) ==
    LET new == inode[out[w]]
    IN  /\ new.sheets = IF job[w].mode = "replace" THEN source[w] ELSE Append(source[w], job[w].name)
        /\ \A i \in DOMAIN new.sheets :
             /\ i \in DOMAIN new.parts
             /\ new.parts[i] = IF i = OwnPart(w) THEN Datum(job[w].name, w) ELSE Latest.parts[i]
BookOfFresh(w) ==
    inode[out[w]].sheets = <<job[w].name>> /\ inode[out[w]].parts = <<Datum(job[w].name, w)>>

WorkOfWriter ==
    \A w \in Writers :
        /\ pc[w] = "copy_entries" => ReadLatest(w) /\ IsWhole("dest")
        /\ pc[w] = "write_rows" => ReadLatest(w) /\ CopyOfLatest(w)
        /\ pc[w] \in {"remove", "move", "give_up"} => ReadLatest(w) /\ BookOfAppender(w)
        /\ pc[w] = "finished" =>
             IF source[w] = << >> THEN BookOfFresh(w) ELSE ReadLatest(w) /\ BookOfAppender(w)
        /\ pc[w] \in {"fresh", "finished"} => path["dest"] = out[w]
        /\ pc[w] \in {"fresh", "write_rows", "remove", "move", "give_up", "finished"} =>
             inode[out[w]].by = w /\ ~inode[out[w]].whole

(* A scan that is bound finds its sheet where it was.                        *)
ScanTyped ==
    scan \in [Readers -> [state : {"unbound", "bound", "over", "cannot_open", "no_such_sheet",
                                   "read", "read_other"},
                          part : Nat, name : Names \cup {"none"}]]
ScansFollow ==
    NoFresh => \A r \in Readers :
        /\ scan[r].state \notin {"no_such_sheet", "read_other"}
        /\ scan[r].state = "bound" => /\ published # << >>
                                      /\ scan[r].part \in DOMAIN Latest.sheets
                                      /\ Latest.sheets[scan[r].part] = scan[r].name

SerialInv == /\ SwapInv /\ IsSequence(published) /\ OneAtATime /\ CurrentIsLatest
             /\ TempIsNoBook /\ WorkOfWriter /\ ScanTyped /\ ScansFollow

-----------------------------------------------------------------------------
(* What has been put in place, as SheetDirectory sees it.                    *)
Book ==
    IF published = << >> THEN << >>
    ELSE LET book == published[Len(published)]
         IN  [i \in DOMAIN book.sheets |-> [name |-> book.sheets[i], table |-> book.parts[i].by]]

Directory == INSTANCE SheetDirectory WITH
    Tables <- Writers \cup {"base"}, Fold <- [name \in Names |-> name], book <- Book

(* KeepsDirectory: COPYs that run one after the other implement              *)
(* SheetDirectory, with failures of any kind as steps that change nothing.   *)
KeepsDirectory == Directory!Spec

-----------------------------------------------------------------------------
(* CopyEnds: a COPY that has begun ends; retries are not repeated for ever.  *)
CopyEnds == \A w \in Writers : (pc[w] # "start") ~> ~Running(w)

-----------------------------------------------------------------------------
(* EndedKeepsBook: when no COPY is running any more, and none wrote a fresh  *)
(* workbook, the workbook that was put in place last is on the disk.         *)
EndedKeepsBook ==
    published # << >> /\ (\A w \in Writers : ~Running(w) /\ ~WroteFresh(w)) => BookIsKept
=============================================================================
