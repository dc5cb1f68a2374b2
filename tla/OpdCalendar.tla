---------------------------- MODULE OpdCalendar -----------------------------
(***************************************************************************)
(* The clock of OpdSubmission, read on the calendar of BusinessTime: the   *)
(* deadline that submitMine computes, and that submitCorrectionMine moves  *)
(* by the length of the pause (opd-submission.service.ts).                 *)
(***************************************************************************)
EXTENDS OpdSubmission, BusinessTime

CONSTANTS
  Minutes,  \* minutes in a step of the clock; an hour, of 60 in the code, has Hour steps
  SentIn,   \* instants at which a submission may be sent in
  Watched   \* bound: instants at which a pause may begin or end

\* n steps of the clock, in half minutes.
Steps(n) == 2 * Minutes * n

ASSUME ReadingAssumption ==
  /\ Minutes \in Nat \ {0} /\ Target # 0
  /\ SentIn \subseteq Nat /\ Watched \subseteq Nat

\* Two times that differ by seconds only.
Close(a, b) == a - b \in {-1, 0, 1}

(* The due date is the first instant at which the time has passed, or     *)
(* short of it by seconds when the submission is not sent in on the minute. *)
IsDue(n) ==
  \A t \in SentIn :
    LET due == AddTime(t, Steps(n)) IN
    /\ Close(TimeBetween(t, due), Steps(n))
    /\ t % 2 = 0 => TimeBetween(t, due) = Steps(n)
    /\ TimeBetween(t, due - 1) < Steps(n)

\* The instants at which n steps have passed since t, by day or by night.
Reading(t, n) == {e \in Watched : e >= t /\ TimeBetween(t, e) = Steps(n)}

(* A pause that begins and ends p and n steps after the submission leaves   *)
(* of its d steps what was left before, whenever the two are in the day.    *)
KeepsRest(p, n, d) ==
  \A t \in SentIn : \A from \in Reading(t, p), to \in Reading(t, n) : from <= to =>
    LET due == AddTime(t, Steps(d))
        moved == AddTime(due, TimeBetween(from, to))
    IN  Close(TimeBetween(to, moved), TimeBetween(from, due))

\* Both, for all times the instance can reach: pauses before the p-th step
\* have added p steps at most.
Allowed == Allowance .. (Allowance + MaxClock)
DueTable == [d \in Allowed |-> IsDue(d)]
RestTable ==
  [p \in 0 .. MaxClock |-> [n \in 0 .. MaxClock |-> [d \in Allowed |->
     p <= n /\ d <= Allowance + p => KeepsRest(p, n, d)]]]

(* The due date of a submission is the end of its working hours, whatever   *)
(* breaks, nights, holidays and seconds lie in between.                     *)
DeadlineIsWorkingTime ==
  \A s \in Submission : row[s].dueAt # Never => DueTable[row[s].dueAt - row[s].startedAt]

(* When the OPD answers a correction, the desk has as much working time as  *)
(* it had when the pause began: what the pause counts is what is added.     *)
PauseKeepsTheRest ==
  \A s \in Submission :
    row[s].status = "NEEDS_CORRECTION" /\ row[s].pausedAt # Never /\ row[s].dueAt # Never =>
      LET since(h) == h - row[s].startedAt IN
      RestTable[since(row[s].pausedAt)][since(clock)][since(row[s].dueAt)]

=============================================================================
