---------------------------- MODULE SharedStrings ----------------------------
(***************************************************************************)
(* xl/sharedStrings.xml is read twice: Bind searches it for the strings of *)
(* the header (SharedStringSearcher), InitGlobal loads all of it into a    *)
(* StringTable (SharedStringParser), from which the scan's cells take      *)
(* their strings by position.  Both drive the automaton of                 *)
(* SharedStringParserBase, one callback of expat per step.                 *)
(***************************************************************************)
EXTENDS Ascending, SequencesExt

CONSTANTS
    Chars,       (* expat reports text in pieces; a piece is one of these    *)
    MaxInline,   (* string_t keeps strings of up to this length in place     *)
    ItemShapes,  (* the <si> elements a document is built from               *)
    MaxStrings,  (* bound: the length of a document                          *)
    HeaderIds    (* the ids the header's cells may refer to, in column order *)

(* A run of text in an <si>: <t>, <r> with a <t> inside, or <rPh> with one.  *)
Runs == [tag : {"t", "r", "rPh"}, text : Seq(Chars)]

ASSUME StringsAssumption ==
    /\ MaxInline \in Nat /\ MaxStrings \in Nat
    /\ ItemShapes \subseteq Seq(Runs)
    /\ HeaderIds \subseteq Seq(Nat)

VARIABLES
    items, has_entry, header,                   (* the document and the header; never change *)
    phase,                                      (* "search", "resolve", "load", "done" or    *)
                                                (* "failed"                                  *)
    rest,                                       (* what the parser has yet to read           *)
    state, text_handler, data,                  (* SharedStringParserBase                    *)
    ids, current_idx, current_str, result,      (* SharedStringSearcher                      *)
    names,                                      (* the header's strings                      *)
    table, index, arena                         (* StringTable                               *)

document == <<items, has_entry, header>>
parser   == <<rest, state, text_handler, data>>
searcher == <<ids, current_idx, current_str, result>>
strings  == <<table, index, arena>>
vars     == <<document, phase, parser, searcher, names, strings>>

-----------------------------------------------------------------------------
(* The document as expat reports it.                                         *)
Start(tag) == [event |-> "start", what |-> tag]
End(tag)   == [event |-> "end", what |-> tag]
Pieces(text) == [i \in DOMAIN text |-> [event |-> "text", what |-> text[i]]]
TextElement(text) == <<Start("t")>> \o Pieces(text) \o <<End("t")>>
RunTokens(run)    == IF run.tag = "t" THEN TextElement(run.text)
                     ELSE <<Start(run.tag)>> \o TextElement(run.text) \o <<End(run.tag)>>
ItemTokens(item)  == <<Start("si")>> \o FlattenSeq([i \in DOMAIN item |-> RunTokens(item[i])]) \o <<End("si")>>
Tokens == <<Start("sst")>> \o FlattenSeq([i \in DOMAIN items |-> ItemTokens(items[i])]) \o <<End("sst")>>

NothingParsed == rest = Tokens /\ state = "START" /\ text_handler = FALSE /\ data = << >>
NewParser     == rest' = Tokens /\ state' = "START" /\ text_handler' = FALSE /\ data' = << >>
NoString == [k \in {} |-> << >>]

(* ResolveColumnNames searches only if the header refers to shared strings,  *)
(* and throws when there is no entry to search.                              *)
Init ==
    /\ items \in UNION { [1 .. n -> ItemShapes] : n \in 0 .. MaxStrings }
    /\ has_entry \in BOOLEAN /\ (~has_entry => items = << >>)
    /\ header \in HeaderIds
    /\ phase = IF header = << >> THEN "resolve" ELSE IF has_entry THEN "search" ELSE "failed"
    /\ NothingParsed
    /\ ids = Ascending(Range(header))
    /\ current_idx = 0 /\ current_str = 0 /\ result = NoString
    /\ names = << >>
    /\ table = NoString /\ index = << >> /\ arena = << >>

-----------------------------------------------------------------------------
(* StringTable.  A string_t holds a short string itself and points to a long *)
(* one: to a copy in the arena, or to the parser's buffer, which is reused.  *)
IsInlined(str) == Len(str) <= MaxInline
InPlace(str)   == [at |-> "place", str |-> str]
InArena(n)     == [at |-> "arena", slot |-> n]
Argument(str)  == IF IsInlined(str) THEN InPlace(str) ELSE [at |-> "buffer"]

Pointee(ref) == CASE ref.at = "place"  -> ref.str
                  [] ref.at = "arena"  -> arena[ref.slot]
                  [] ref.at = "buffer" -> data
Get(val) == Pointee(index[val + 1])

AddFoundArgument(str) ==
    /\ str \in DOMAIN table
    /\ index' = Append(index, Argument(str))
    /\ UNCHANGED <<table, arena>>

AddFound(str) ==
    /\ str \in DOMAIN table
    /\ index' = Append(index, table[str].key)
    /\ UNCHANGED <<table, arena>>

AddNew(str) ==
    LET key == IF IsInlined(str) THEN InPlace(str) ELSE InArena(Len(arena) + 1)
    IN  /\ str \notin DOMAIN table
        /\ arena' = IF IsInlined(str) THEN arena ELSE Append(arena, str)
        /\ table' = [s \in DOMAIN table \cup {str} |->
                        IF s = str THEN [key |-> key, val |-> Len(index)] ELSE table[s]]
        /\ index' = Append(index, key)

Add(str) == AddFound(str) \/ AddNew(str)

-----------------------------------------------------------------------------
(* OnString of the searcher: what it is looking for is in ids, ascending.    *)
NothingToFind == current_idx >= Len(ids)
IsWanted == ids[current_idx + 1] = current_str

Find(str) ==
    /\ ~NothingToFind
    /\ result' = IF IsWanted
                 THEN [id \in DOMAIN result \cup {current_str} |-> IF id = current_str THEN str ELSE result[id]]
                 ELSE result
    /\ current_idx' = IF IsWanted THEN current_idx + 1 ELSE current_idx
    /\ current_str' = current_str + 1
    /\ UNCHANGED ids

(* The parser stops: at </sst>, or when the searcher has everything.         *)
Finished == phase' = IF phase = "search" THEN "resolve" ELSE "done"

OnStringToTheEnd(str) ==
    \/ phase = "search" /\ Find(str) /\ UNCHANGED <<phase, strings>>
    \/ /\ phase = "search" /\ NothingToFind /\ current_str' = current_str + 1
       /\ UNCHANGED <<phase, ids, current_idx, result, strings>>
    \/ phase = "load" /\ Add(str) /\ UNCHANGED <<phase, searcher>>

OnString(str) ==
    \/ phase = "search" /\ Find(str) /\ UNCHANGED <<phase, strings>>
    \/ phase = "search" /\ NothingToFind /\ Finished /\ UNCHANGED <<searcher, strings>>
    \/ phase = "load" /\ Add(str) /\ UNCHANGED <<phase, searcher>>

-----------------------------------------------------------------------------
(* The callbacks of SharedStringParserBase.  <r> changes no state, and <t>   *)
(* and its text are not looked at inside <rPh>.                              *)
Parsing   == phase \in {"search", "load"}
Token     == Head(rest)
Reads(event) == Parsing /\ rest # << >> /\ Token.event = event /\ rest' = Tail(rest)

AfterStartOfAnyRun(tag) ==
    CASE state = "START" /\ tag = "sst" -> "SST"
      [] state = "SST" /\ tag = "si"    -> "SI"
      [] state = "SI" /\ tag = "t"      -> "T"
      [] OTHER                          -> state

AfterStart(tag) ==
    CASE state = "START" /\ tag = "sst" -> "SST"
      [] state = "SST" /\ tag = "si"    -> "SI"
      [] state = "SI" /\ tag = "t"      -> "T"
      [] state = "SI" /\ tag = "rPh"    -> "RPH"
      [] OTHER                          -> state

OnStartElement ==
    /\ Reads("start")
    /\ state' = AfterStart(Token.what)
    /\ text_handler' = (text_handler \/ state' = "T")
    /\ UNCHANGED <<data, phase, searcher, strings, document, names>>

OnText ==
    /\ Reads("text")
    /\ data' = IF text_handler THEN Append(data, Token.what) ELSE data
    /\ UNCHANGED <<state, text_handler, phase, searcher, strings, document, names>>

EndText ==
    /\ Reads("end") /\ state = "T" /\ Token.what = "t"
    /\ state' = "SI" /\ text_handler' = FALSE
    /\ UNCHANGED <<data, phase, searcher, strings, document, names>>

EndItem ==
    /\ Reads("end") /\ state = "SI" /\ Token.what = "si"
    /\ OnString(data)
    /\ state' = "SST" /\ data' = << >>
    /\ UNCHANGED <<text_handler, document, names>>

EndTable ==
    /\ Reads("end") /\ state = "SST" /\ Token.what = "sst"
    /\ Finished
    /\ UNCHANGED <<state, text_handler, data, searcher, strings, document, names>>

EndPhonetic ==
    /\ Reads("end") /\ state = "RPH" /\ Token.what = "rPh"
    /\ state' = "SI"
    /\ UNCHANGED <<text_handler, data, phase, searcher, strings, document, names>>

EndIgnored ==
    /\ Reads("end")
    /\ <<state, Token.what>> \notin {<<"T", "t">>, <<"SI", "si">>, <<"SST", "sst">>, <<"RPH", "rPh">>}
    /\ UNCHANGED <<state, text_handler, data, phase, searcher, strings, document, names>>

-----------------------------------------------------------------------------
(* ResolveColumnNames takes the strings by id; at() throws if one is missing.*)
(* Without an entry InitGlobal loads nothing.                                *)
AllFound == Range(header) \subseteq DOMAIN result

ResolveColumnNames ==
    /\ phase = "resolve" /\ AllFound
    /\ names' = [i \in DOMAIN header |-> result[header[i]]]
    /\ phase' = IF has_entry THEN "load" ELSE "done"
    /\ NewParser
    /\ UNCHANGED <<searcher, strings, document>>

AtThrows ==
    /\ phase = "resolve" /\ ~AllFound
    /\ phase' = "failed"
    /\ UNCHANGED <<parser, searcher, names, strings, document>>

Terminated == phase \in {"done", "failed"} /\ UNCHANGED vars

Next ==
    \/ OnStartElement \/ OnText \/ EndText \/ EndItem \/ EndTable \/ EndPhonetic \/ EndIgnored
    \/ ResolveColumnNames \/ AtThrows \/ Terminated

Spec == Init /\ [][Next]_vars
=============================================================================
