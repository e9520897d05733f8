----------------------------- MODULE MCDownload -----------------------------
(***************************************************************************)
(* Download with the whole resource or its tail requested.                 *)
(***************************************************************************)
EXTENDS Download

\* The default HttpRange, "everything".
Everything ==
    {[useStart |-> TRUE, useEnd |-> TRUE, start |-> 0, end |-> 0, total |-> 0]}

\* Ranges that begin at some byte and run to the end of the resource.
Tails ==
    {[useStart |-> FALSE, useEnd |-> TRUE, start |-> b, end |-> 0, total |-> 0] : b \in 0..2}

\* The same of a resource whose total the caller believes to know.
Known == {[r EXCEPT !.total = 15] : r \in Everything \cup Tails}

ToTheEnd == Everything \cup Tails \cup Known

LargeSizes == {0} \cup 9..20
FittingConns == 1..3
=============================================================================
