------------------------------ MODULE MCImport ------------------------------
(* Small instances of ImportBatch: files of two rows.                       *)
EXTENDS ImportBatch

CONSTANTS n1, n2

Line(n, sound, known) == [nip |-> n, sound |-> sound, known |-> known]

\* A unit the reference table lacks; a file with the same employee twice; an
\* invalid row.
LacksUnit == <<Line(n1, TRUE, TRUE), Line(n2, TRUE, FALSE)>>
Twice == <<Line(n1, TRUE, TRUE), Line(n1, TRUE, TRUE)>>
Invalid == <<Line(n1, TRUE, TRUE), Line(n2, FALSE, TRUE)>>

BadFiles == {LacksUnit, Invalid}
GoodFiles == {<<Line(n1, TRUE, TRUE)>>, Twice}

=============================================================================
