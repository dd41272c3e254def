----------------------------- MODULE MCCopySink -----------------------------
(* Chunks of two rows: every form of vector with every pattern of NULLs in  *)
(* the first column, a few of them in the others.                            *)
EXTENDS SinkProperties

Opt(mode, header, limit, patch) == [mode |-> mode, header |-> header, limit |-> limit, patch |-> patch]
SomeOptions ==
    {Opt(Default, Default, Default, FALSE), Opt("create", TRUE, Default, FALSE),
     Opt("create", TRUE, 0, FALSE), Opt("create", FALSE, 0, FALSE),
     Opt("append", TRUE, 3, TRUE), Opt("append", FALSE, 2, FALSE), Opt("append", TRUE, -1, FALSE),
     Opt("replace", FALSE, Default, FALSE), Opt("replace", TRUE, 4, TRUE),
     Opt(Bad, TRUE, Default, FALSE), Opt("create", Bad, 1, FALSE), Opt("create", TRUE, Bad, FALSE)}

SomeTypes == {<<"DATE">>, <<"TIME">>, <<"TIMESTAMP_SEC">>, <<"BOOLEAN", "VARCHAR">>,
              <<"TIMESTAMP", "UUID", "BIGINT">>}

(* Two values of each type: days, ticks around a second, around midnight.    *)
Values(type) ==
    CASE type = "DATE"        -> <<-4, 1>>
      [] type \in Times       -> <<11, 39>>
      [] type \in Timestamps  -> <<-1, 15>>
      [] type = "BOOLEAN"     -> <<0, 1>>
      [] type \in Numbers     -> <<7, 8>>
      [] OTHER                -> <<1, 2>>

Vec(form, data, valid, sel) == [form |-> form, data |-> data, valid |-> valid, sel |-> sel]
Pairs == [1 .. 2 -> BOOLEAN]
Flat(type)     == {Vec("flat", Values(type), v, <<1, 2>>) : v \in Pairs}
Constant(type) == {Vec("constant", <<Values(type)[2]>>, <<b>>, <<1, 1>>) : b \in BOOLEAN}
Dictionary(type) ==
    {Vec("dictionary", Values(type), v, s) : v \in Pairs, s \in {<<2, 1>>, <<2, 2>>}}
OneRow(type) == {Vec("flat", <<Values(type)[1]>>, <<b>>, <<1>>) : b \in BOOLEAN}

SomeChunks(ts) ==
    LET other(c) == {Vec("flat", Values(ts[c]), <<TRUE, TRUE>>, <<1, 2>>),
                     Vec("dictionary", Values(ts[c]), <<TRUE, FALSE>>, <<2, 1>>)}
    IN  CASE ts = <<"DATE">> -> {<<v>> : v \in Flat("DATE") \cup Constant("DATE")
                                                \cup Dictionary("DATE") \cup OneRow("DATE")}
          [] Len(ts) = 1     -> {<<v>> : v \in Constant(ts[1]) \cup other(1) \cup OneRow(ts[1])}
          [] Len(ts) = 2     -> {<<v, w>> : v \in other(1), w \in Constant(ts[2]) \cup other(2)}
          [] Len(ts) = 3     -> {<<v, w, x>> : v \in Dictionary(ts[1]) \ other(1),
                                               w \in Constant(ts[2]), x \in {Vec("flat", Values(ts[3]), <<FALSE, TRUE>>, <<1, 2>>)}}

(* A workbook whose producer wrote sheet1.xml twice.                         *)
SomeEntries == <<"content_types", "sheet1", "workbook", "workbook_rels", "styles", "chart", "sheet1">>
=============================================================================
