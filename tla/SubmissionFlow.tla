--------------------------- MODULE SubmissionFlow ---------------------------
(***************************************************************************)
(* What the desk for submissions promises, and nothing of how: a           *)
(* submission is sent in once, and the case that handles it is opened in   *)
(* that step and never again; it may go back to the OPD for correction and *)
(* return; and once it is closed it stays closed.  A submission may also   *)
(* leave the promise, for good and from anywhere; nothing is said of it    *)
(* then.                                                                   *)
(***************************************************************************)
CONSTANT Submission

VARIABLES
  phase,  \* phase[s]: where the submission is
  opened  \* the submissions a SIAP case has been opened for

vars == <<phase, opened>>

Phase == {"draft", "desk", "opd", "closed", "left"}

Init ==
  /\ phase = [s \in Submission |-> "draft"]
  /\ opened = {}

Send(s) ==
  /\ phase[s] = "draft"
  /\ phase' = [phase EXCEPT ![s] = "desk"]
  /\ opened' = opened \cup {s}

Pass(s, from, to) ==
  /\ phase[s] = from
  /\ phase' = [phase EXCEPT ![s] = to]
  /\ UNCHANGED opened

Leave(s) ==
  /\ phase[s] # "left"
  /\ phase' = [phase EXCEPT ![s] = "left"]
  /\ opened' = opened \ {s}

Next ==
  \E s \in Submission :
    \/ Send(s)
    \/ Pass(s, "desk", "opd")
    \/ Pass(s, "opd", "desk")
    \/ \E from \in Phase \ {"closed", "left"} : Pass(s, from, "closed")
    \/ Leave(s)

Spec == Init /\ [][Next]_vars

=============================================================================
