------------------------------- MODULE MCOpd --------------------------------
(* A small instance of OpdSubmission and what is said of it: a service that  *)
(* requires a document, and one that requires none; half hours; and a        *)
(* calendar with short days, of two steps of the clock and a half, a break   *)
(* of a minute, a free day of the week and, on the next, a holiday.          *)
EXTENDS OpdHistory, OpdCalendar, TLC

OneNeedsKtp == [v \in Service |-> IF v = "PEREMAJAAN_NIK" THEN {"KTP"} ELSE {}]

\* The day before the weekend and the holiday, and those.
FirstDays == At(1, 0) .. (At(4, 0) - 1)

\* These and the four days after them.
Week == 0 .. (At(8, 0) - 1)

\* Sound for invariants and for what is said of every single step.
Interchangeable == Permutations(Request) \cup Permutations(Submission)

(* What the instance looks at.  One submission meets the hours, with nothing *)
(* drawn up beside it; or the submissions meet each other over the days, at  *)
(* the end of the clock, while the desk has accepted none.  Documents, the   *)
(* other services and failures come in where both are one: one submission,   *)
(* sent in at the end of the clock.                                          *)
Alone == day = 1 /\ \A s, t \in Submission : s = t \/ row[s] = EmptyRow \/ row[t] = EmptyRow
AtTheEnd ==
  /\ clock = MaxClock
  /\ \A s \in Submission : {row[s].startedAt, row[s].stoppedAt} \subseteq {Never, MaxClock}
Unread == \A s \in Submission : row[s].status \in {"NONE", "DRAFT", "SUBMITTED"} \cup Final
Plain ==
  /\ faults = 0
  /\ \A s \in Submission : papers[s] = <<>> /\ row[s].service = EmptyRow.service
Scope == IF Plain THEN Alone \/ (AtTheEnd /\ Unread) ELSE Alone /\ AtTheEnd

=============================================================================
