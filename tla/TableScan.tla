----------------------------- MODULE TableScan -----------------------------
(***************************************************************************)
(* What a table function scan promises to the query that runs it: the rows *)
(* of one table, in order, each exactly once, VectorSize of them at a time *)
(* until fewer are left, then the end of the table.  A scan may give up    *)
(* with an error only when the table allows it to.                         *)
(***************************************************************************)
EXTENDS Naturals, Sequences

CONSTANT VectorSize

VARIABLES table,      (* the rows the query is entitled to; never changes    *)
          may_fail,   (* whether the input justifies an error; never changes *)
          output,     (* the rows delivered                                  *)
          phase       (* "scanning", "complete" or "failed"                  *)

vars == <<table, may_fail, output, phase>>

Init == output = << >> /\ phase = "scanning"

(* A call that returns rows returns a full vector or all that is left.       *)
Deliver ==
    /\ phase = "scanning"
    /\ Len(output) < Len(table)
    /\ LET left == Len(table) - Len(output)
           n    == IF left < VectorSize THEN left ELSE VectorSize
       IN  output' = SubSeq(table, 1, Len(output) + n)
    /\ UNCHANGED <<table, may_fail, phase>>

Complete ==
    /\ phase = "scanning" /\ output = table
    /\ phase' = "complete"
    /\ UNCHANGED <<table, may_fail, output>>

Fail ==
    /\ phase = "scanning" /\ may_fail
    /\ phase' = "failed"
    /\ UNCHANGED <<table, may_fail, output>>

Next == Deliver \/ Complete \/ Fail

Spec == Init /\ [][Next]_vars
=============================================================================
