--------------------------- MODULE MCSharedStrings ---------------------------
(* Documents and headers for the small instances of SharedStrings.           *)
EXTENDS StringsProperties

Run(tag, text) == [tag |-> tag, text |-> text]

(* No text at all, a short and a long string in different elements, two runs *)
(* that make up a string another item has whole, and phonetic text.          *)
SomeItems ==
    { << >>,
      <<Run("t", <<"a">>)>>,
      <<Run("t", <<"a", "b">>)>>,
      <<Run("r", <<"a">>), Run("r", <<"b">>)>>,
      <<Run("t", <<"b", "a">>), Run("rPh", <<"b">>)>>,
      <<Run("rPh", <<"a">>), Run("t", << >>)>> }

(* Up to three columns, in any order, with repetitions and unknown ids.      *)
SomeHeaders == UNION { [1 .. n -> 0 .. 2] : n \in 0 .. 2 } \cup {<<2, 0, 2>>, <<1, 1, 0>>, <<3, 0>>}
=============================================================================
