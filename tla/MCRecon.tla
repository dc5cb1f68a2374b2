------------------------------ MODULE MCRecon -------------------------------
(* Small instances of Reconciliation: two employees, one of them inactive,   *)
(* and payroll files of two rows.                                            *)
EXTENDS Reconciliation

CONSTANTS n1, n2

Agreed == [nip |-> n1, stopped |-> FALSE, adds |-> TRUE, grade |-> "III/a", kind |-> "1",
           unit |-> "school", name |-> "A"]

Staff ==
  [n \in {n1, n2} |->
     IF n = n1 THEN [inactive |-> FALSE, grade |-> "III/a", kind |-> "1", unit |-> "school",
                     name |-> "A"]
     ELSE [inactive |-> TRUE, grade |-> "IV/a", kind |-> None, unit |-> "school", name |-> "B"]]

\* One number twice, the second time in another unit; and a row without a name
\* before one of a retired employee that does not add up.
Twice == <<Agreed, [Agreed EXCEPT !.unit = "clinic"]>>
Wrong == <<[Agreed EXCEPT !.name = None],
           [Agreed EXCEPT !.nip = n2, !.name = "B", !.grade = None, !.stopped = TRUE,
                          !.adds = FALSE]>>

Payrolls == {Twice, Wrong}

(* Two places to begin with, both reached by Spec: a period that was closed  *)
(* before anything was uploaded; and one with a payroll and a run that is    *)
(* DONE but has timed out, so that its call is to mark it.  In the one       *)
(* uploads meet runs and runs each other, in the other runs meet reports.    *)
Shut == [status |-> "FINALIZED", of |-> 0, total |-> 0, sure |-> FALSE]
Late == [status |-> "DONE", batch |-> 1, read |-> {2}, total |-> 2]

MCInit ==
  /\ \/ /\ batch = [b \in Batch |-> NoBatch]
        /\ run = [r \in Run |-> NoRun]
        /\ findings = [r \in Run |-> {}]
        /\ reports = <<Shut>>
        /\ match = [r \in Run |-> NoMatch]
     \/ /\ batch = [b \in Batch |-> [status |-> "HAS_ISSUES", file |-> Wrong, rows |-> 2]]
        /\ run = [r \in Run |-> IF r = 1 THEN Late ELSE NoRun]
        /\ findings = [r \in Run |-> IF r = 1 THEN FindingsOf(Wrong, {2}, [n \in {n2} |-> 2])
                                             ELSE {}]
        /\ reports = <<>>
        /\ match = [r \in Run |-> IF r = 1 THEN [NoMatch EXCEPT !.call = "mark"] ELSE NoMatch]
  /\ upload = [u \in Uploader |-> NoUpload]
  /\ starting = 0
  /\ draft = [d \in Drafter |-> NoDraft]
  /\ closing = 0
  /\ faults = 0

MCSpec == MCInit /\ [][Next]_vars

\* Whatever a call still has to do, it does: nothing waits for a lock or a turn.
MCFairSpec == MCSpec /\ \A r \in Run : WF_vars(Works(r) \/ MarkFailed(r))

=============================================================================
