----------------------------- MODULE OpdHistory -----------------------------
(***************************************************************************)
(* What OpdSubmission does, watched.  Most requests write only to a row in *)
(* a status they expect.  cancelMine and submitCorrectionMine do not: when *)
(* another request moves a submission out of the status they found it in,  *)
(* they write to it all the same, and of such a submission the desk can    *)
(* promise nothing more.  This module remembers which submissions these    *)
(* are, and how often each was in correction, and states what holds of     *)
(* the others, and of the hours of all.                                    *)
(***************************************************************************)
EXTENDS OpdSubmission

VARIABLES
  crossed,  \* submissions that moved on under a cancelMine or submitCorrectionMine
  pauses    \* pauses[s]: the corrections of s that took any time

history == <<crossed, pauses>>

TypeOKHistory == crossed \subseteq Submission /\ pauses \in [Submission -> Nat]

WatchedInit == Init /\ crossed = {} /\ pauses = [s \in Submission |-> 0]

\* The statuses in which a request that will not look again found the row.
Found == [cancel |-> {"DRAFT", "SUBMITTED"}, correct |-> {"NEEDS_CORRECTION"}]

\* Such a request goes on, and s is no longer as it found it.
Crosses(r, s) ==
  /\ job'[r] = job[r] /\ job[r].op \in DOMAIN Found /\ job[r].sub = s
  /\ row'[s].status \notin Found[job[r].op]

\* A pause counts from the first time that passes in it.
PauseBegins(s) == held'[s] # held[s] /\ row[s].pausedAt = clock

Watch ==
  /\ crossed' = crossed \cup {s \in Submission : \E r \in Request : Crosses(r, s)}
  /\ pauses' = [s \in Submission |-> IF PauseBegins(s) THEN pauses[s] + 1 ELSE pauses[s]]

WatchedSpec == WatchedInit /\ [][Next /\ Watch]_<<vars, history>>

-----------------------------------------------------------------------------
(* The hours recorded for a completed submission are those it spent at the   *)
(* desk, to the rounding of calculateElapsedHours: never more than those     *)
(* hours rounded up, and for each correction at most the part of an hour by  *)
(* which its pause was rounded up less.                                      *)
CompletedHours ==
  \A s \in Submission :
    row[s].status = "COMPLETED" =>
      /\ row[s].elapsed * Hour < TimeAtDesk(s) + Hour
      /\ TimeAtDesk(s) <= row[s].elapsed * Hour + pauses[s] * (Hour - 1)

(* Submissions keep the promise of the desk, however requests overlap, until *)
(* one moves on under a cancelMine or submitCorrectionMine.                  *)
PhaseOf(status) ==
  IF status \in {"NONE", "DRAFT"} THEN "draft"
  ELSE IF status \in AtDesk THEN "desk"
  ELSE IF status = "NEEDS_CORRECTION" THEN "opd" ELSE "closed"

Promise == INSTANCE SubmissionFlow
  WITH phase <- [s \in Submission |-> IF s \in crossed THEN "left" ELSE PhaseOf(row[s].status)],
       opened <- {s \in Submission \ crossed : siapCases[s] > 0}

KeepsPromise == Promise!Spec

=============================================================================
