-------------------------- MODULE StringsProperties --------------------------
(* What the header and the scan may expect of the shared strings.            *)
EXTENDS SharedStrings

(* The string an <si> stands for: its text, formatted or not, and none of    *)
(* its phonetic text.                                                        *)
Texts(item) == [i \in DOMAIN item |-> IF item[i].tag = "rPh" THEN << >> ELSE item[i].text]
StringOf(item) == FlattenSeq(Texts(item))

(* NamesResolve: each header cell gets the string with its id, in whatever   *)
(* order and however often the columns name the ids, although the search     *)
(* passes the document once and stops before its end; Bind fails only when   *)
(* no string has an id it looks for.                                         *)
NamesResolve ==
    /\ phase \in {"load", "done"} =>
         /\ Len(names) = Len(header)
         /\ \A i \in DOMAIN header : names[i] = StringOf(items[header[i] + 1])
    /\ phase = "failed" => \E i \in DOMAIN header : header[i] >= Len(items)

(* TableFollowsDocument: at every moment of the load, position i holds the   *)
(* i-th string, no matter how many equal strings precede it and what has     *)
(* happened to the parser's buffer since; in the end all of them are there.  *)
TableFollowsDocument ==
    /\ text_handler = (state = "T")
    /\ \A i \in DOMAIN index : index[i].at = "arena" => index[i].slot \in DOMAIN arena
    /\ \A i \in DOMAIN index : Get(i - 1) = StringOf(items[i])
    /\ phase = "done" => Len(index) = Len(items)

(* SearchStops: the search looks at no string behind the last one it wants.  *)
SearchStops == current_str > 0 => \E i \in DOMAIN header : current_str <= header[i] + 1

-----------------------------------------------------------------------------
(***************************************************************************)
(* The inductive invariant.                                                *)
(***************************************************************************)
UpTo(seqs, k) == FlattenSeq(SubSeq(seqs, 1, k))
From(seqs, k) == FlattenSeq(SubSeq(seqs, k + 1, Len(seqs)))

Refs == [at : {"place"}, str : Seq(Chars)] \cup [at : {"arena"}, slot : Nat \ {0}]
TypeOK ==
    /\ items \in Seq(ItemShapes) /\ header \in Seq(Nat)
    /\ has_entry \in BOOLEAN /\ (~has_entry => items = << >> /\ phase \notin {"search", "load"})
    /\ phase \in {"search", "resolve", "load", "done", "failed"}
    /\ text_handler = (state = "T")
    /\ index \in Seq(Refs) /\ arena \in Seq(Seq(Chars))

(* The parser is at a known place of the document: it has yet to read what   *)
(* follows the place, data holds what is said before it in its item, and the *)
(* items before it have been handed over.                                    *)
Passed(k) == IF phase = "search" THEN current_str = k ELSE Len(index) = k
AllItems == [i \in DOMAIN items |-> ItemTokens(items[i])]
AllRuns(item) == [i \in DOMAIN item |-> RunTokens(item[i])]
ItemsFrom(k) == From(AllItems, k) \o <<End("sst")>>
RunsFrom(k, j) == From(AllRuns(items[k]), j) \o <<End("si")>> \o ItemsFrom(k)
TextFrom(text, p) == SubSeq(Pieces(text), p + 1, Len(text)) \o <<End("t")>>
Closing(run) == IF run.tag = "t" THEN << >> ELSE <<End(run.tag)>>
Around(run)  == IF run.tag = "rPh" THEN "RPH" ELSE "SI"
Spoken(k, j) == UpTo(Texts(items[k]), j)

AtStart == rest = Tokens /\ state = "START" /\ data = << >> /\ Passed(0)
BetweenItems(k) == rest = ItemsFrom(k) /\ state = "SST" /\ data = << >> /\ Passed(k)
BetweenRuns(k, j) == rest = RunsFrom(k, j) /\ state = "SI" /\ data = Spoken(k, j)
BeforeText(k, j, run) ==
    /\ run.tag # "t" /\ rest = TextElement(run.text) \o Closing(run) \o RunsFrom(k, j)
    /\ state = Around(run) /\ data = Spoken(k, j - 1)
InText(k, j, run, p) ==
    /\ rest = TextFrom(run.text, p) \o Closing(run) \o RunsFrom(k, j)
    /\ state = (IF run.tag = "rPh" THEN "RPH" ELSE "T")
    /\ data = Spoken(k, j - 1) \o (IF run.tag = "rPh" THEN << >> ELSE SubSeq(run.text, 1, p))
AfterText(k, j, run) ==
    /\ run.tag # "t" /\ rest = Closing(run) \o RunsFrom(k, j)
    /\ state = Around(run) /\ data = Spoken(k, j)

InRun(k) ==
    \E j \in 1 .. Len(items[k]) :
       LET run == items[k][j]
       IN  \/ BeforeText(k, j, run) \/ AfterText(k, j, run)
           \/ \E p \in 0 .. Len(run.text) : InText(k, j, run, p)
AtAPlace ==
    \/ AtStart
    \/ \E k \in 0 .. Len(items) : BetweenItems(k)
    \/ \E k \in 1 .. Len(items) :
          /\ Passed(k - 1)
          /\ InRun(k) \/ \E j \in 0 .. Len(items[k]) : BetweenRuns(k, j)

(* The search has found the ids behind it and none other, and it ends when   *)
(* it has all of them or when it has seen the whole document.                *)
Searched ==
    /\ ids = Ascending(Range(header))
    /\ current_idx \in 0 .. Len(ids) /\ current_str \in 0 .. Len(items)
    /\ \A i \in DOMAIN ids : i <= current_idx <=> ids[i] < current_str
    /\ DOMAIN result = {ids[i] : i \in 1 .. current_idx}
    /\ \A i \in 1 .. current_idx : result[ids[i]] = StringOf(items[ids[i] + 1])
    /\ phase = "resolve" => current_idx = Len(ids) \/ current_str = Len(items)

(* Slots and keys hold their string themselves or point into the arena.      *)
Lasting(ref, str) ==
    /\ ref \in Refs /\ Pointee(ref) = str
    /\ ref.at = "arena" => ref.slot \in DOMAIN arena
Stored ==
    /\ phase \notin {"load", "done"} => index = << >>
    /\ phase = "done" => Len(index) = Len(items)
    /\ \A i \in DOMAIN index : Lasting(index[i], StringOf(items[i]))
    /\ \A str \in DOMAIN table : Lasting(table[str].key, str)

StringsInv ==
    /\ TypeOK /\ (Parsing => AtAPlace)
    /\ Searched /\ Stored /\ NamesResolve /\ SearchStops
=============================================================================
