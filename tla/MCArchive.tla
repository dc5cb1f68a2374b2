----------------------------- MODULE MCArchive ------------------------------
(* Small instances of MonthlyArchive: a teacher who is promoted, moved or    *)
(* about to retire, and a newcomer.                                          *)
EXTENDS MonthlyArchive, TLC

CONSTANTS n1, n2

Teacher ==
  [unit |-> "school", post |-> "teacher", kind |-> "functional", class |-> 3, letter |-> 1,
   studying |-> FALSE, status |-> "active", retires |-> None, since |-> 0, due |-> FALSE]

\* A teacher who retires in month 1; a head of school, with another status,
\* who retires on the last day of month 2; and the teacher before a promotion
\* to III/a.
Elder == [Teacher EXCEPT !.retires = Noon(1, FALSE)]
Head == [Teacher EXCEPT !.post = "head", !.kind = "structural", !.status = "detached",
                        !.retires = Noon(2, TRUE)]
Junior == [Teacher EXCEPT !.class = 2, !.letter = 4]

Two(c, d) == [n \in {n1, n2} |-> IF n = n1 THEN c ELSE d]
One(c) == [n \in {n1} |-> c]

Few == {Elder, Head}
Sheets == {One(Head), Two(Head, Elder)}

Grades == {Teacher, Junior}
GradeSheets == {One(Junior), One(Teacher)}

Interchangeable == Permutations(Maker)

=============================================================================
