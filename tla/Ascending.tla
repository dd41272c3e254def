----------------------------- MODULE Ascending -----------------------------
(* A finite set of numbers as a sequence, the least first: std::sort of      *)
(* elements that differ.                                                     *)
EXTENDS Integers, FiniteSets

Ascending(S) ==
    [k \in 1 .. Cardinality(S) |-> CHOOSE x \in S : Cardinality({y \in S : y < x}) = k - 1]
=============================================================================
